---- MODULE Spec2Model ----
(***************************************************************************)
(* A model of bevy_reflect_utils: path-addressed reads, guarded writes and *)
(* enum-variant cycling on components and resources of a bevy World.       *)
(*                                                                         *)
(* The World is one record value `world` (the code's `world: &mut World`): *)
(* the type registry, the live entities, the component table, the          *)
(* resources and the change-detection marks.  Every library function is an *)
(* operator from a world (and arguments) to a record [world, result], and  *)
(* every action applies one library function to the current world.         *)
(***************************************************************************)
EXTENDS Integers, Sequences, FiniteSets, TLC

VARIABLES
    world,   \* the bevy World after the last call
    before,  \* the World as it was when the last call started
    last     \* the last call: its name, its arguments and what it returned

vars == <<world, before, last>>

----------------------------------------------------------------------------
(* Bounds of the model.                                                    *)

\* Largest integer stored in a u32 field or wrapped by an Opaque value.
MaxU32 == 1
\* Largest "current index" handed to get_next_index_in_direction.
MaxIndex == 5
\* Largest variant count handed to get_next_index_in_direction.
MaxLength == 4
\* Longest run of toggles in one direction.
MaxSteps == 5

----------------------------------------------------------------------------
(* Result and Option values.                                               *)

Ok(v) == [tag |-> "Ok", val |-> v]
Err(e) == [tag |-> "Err", err |-> e]
IsOk(r) == r.tag = "Ok"
IsErr(r) == r.tag = "Err"

Some(v) == [some |-> TRUE, val |-> v]
None == [some |-> FALSE]

\* ReflectSetSuccess (types.rs)
Changed == "Changed"
NoChanges == "NoChanges"

\* ReflectError (types.rs); ReflectPath and Deserialize carry a message in
\* the code, which no caller inspects: the model keeps the variant only.
ReflectError ==
    { "EntityNotFound", "TypeRegistrationNotFound", "TypeRegistrationInvalidCast",
      "EntityDoesNotHaveComponent", "ReflectPath", "InvalidDowncast",
      "NoDefaultValue", "SetValueFailed", "ResourceDoesNotExist", "Serialize",
      "Deserialize", "PartialEq", "NoAccess" }

\* EnumDirection (enum_utils.rs)
Forward == "Forward"
Backward == "Backward"
EnumDirection == {Forward, Backward}

----------------------------------------------------------------------------
(* The reflected types of the application.  The library is generic in      *)
(* them; these follow the types of its unit tests and add the shapes the   *)
(* tests do not have (a one-variant enum, a three-variant enum, a value    *)
(* type without reflected equality).                                       *)

\* enum EnumA { A, B(u32) }                      (tests of every module)
\* enum EnumS { A }                              one variant
\* enum EnumT { P, Q(u32, Opaque), R }           three variants
\* struct Opaque(u32), #[reflect_value(Default, Serialize, Deserialize)]
\*                                               no reflected PartialEq
\* enum EnumD { Red, Green }   #[reflect(PartialEq, Deserialize)]
\*                                               (ThemeColor of examples/menu.rs)
\* enum EnumP { X, Y }         #[reflect(PartialEq)]   (Theme of examples/menu.rs)
EnumInfo ==
    [ EnumA |-> << [name |-> "A", kind |-> "Unit",  fields |-> <<>>],
                   [name |-> "B", kind |-> "Tuple", fields |-> <<"u32">>] >>,
      EnumS |-> << [name |-> "A", kind |-> "Unit",  fields |-> <<>>] >>,
      EnumD |-> << [name |-> "Red",   kind |-> "Unit", fields |-> <<>>],
                   [name |-> "Green", kind |-> "Unit", fields |-> <<>>] >>,
      EnumP |-> << [name |-> "X", kind |-> "Unit", fields |-> <<>>],
                   [name |-> "Y", kind |-> "Unit", fields |-> <<>>] >>,
      EnumT |-> << [name |-> "P", kind |-> "Unit",  fields |-> <<>>],
                   [name |-> "Q", kind |-> "Tuple", fields |-> <<"u32", "Opaque">>],
                   [name |-> "R", kind |-> "Unit",  fields |-> <<>>] >> ]

EnumTypes == DOMAIN EnumInfo
ValueTypes == {"u32", "f32", "bool", "Opaque"}

\* Value types whose reflected equality is implemented (u32 and friends are
\* registered with PartialEq; Opaque is not).
PartialEqTypes == {"u32", "f32", "bool"}
\* Enums that reflect their own PartialEq (#[reflect(PartialEq)]); the
\* others compare structurally (enum_partial_eq).
ReflectPartialEqData == {"EnumD", "EnumP"}
\* Types registered with ReflectSerialize / ReflectDeserialize.
ReflectSerializeData == {"u32", "f32", "bool", "Opaque"}
ReflectDeserializeData == {"u32", "f32", "bool", "Opaque", "EnumD"}

\* struct ComponentA { value1: EnumA, value2: EnumA }   #[reflect(Component)]
\* struct ComponentB;                                   #[reflect(Component)]
\* struct ComponentC(u32);                              #[reflect(Component)]
\* struct ComponentT { value: EnumT, single: EnumS }    #[reflect(Component)]
\* struct ResourceA { value1: EnumA, value2: Opaque }   #[reflect(Resource)]
\* struct ResourceB;                                    #[reflect(Resource)]
\* struct ResourceT { value: EnumT, single: EnumS }     #[reflect(Resource)]
\* struct ComponentS { e: EnumA, d: EnumD, p: EnumP, o: Opaque, f: f32, t: EnumT }
\* struct ResourceS  { e: EnumA, d: EnumD, p: EnumP, o: Opaque, f: f32, t: EnumT }
\* struct UnregisteredComponent { value: bool }         never registered
\* struct NonReflectResource;                           never registered
StructTypes ==
    { "ComponentA", "ComponentB", "ComponentC", "ComponentT", "ComponentS",
      "ResourceA", "ResourceB", "ResourceT", "ResourceS",
      "UnregisteredComponent", "NonReflectResource" }

TupleStructTypes == {"ComponentC"}
NamedStructTypes == StructTypes \ TupleStructTypes

\* Type data a registration carries.
ReflectComponentData ==
    { "ComponentA", "ComponentB", "ComponentC", "ComponentT", "ComponentS",
      "ComponentL", "DarkButton", "LightButton", "InteractionColors" }
ReflectResourceData == {"ResourceA", "ResourceB", "ResourceT", "ResourceS"}
ReflectDefaultData == {"u32", "f32", "bool", "Opaque"}

TypeIds == EnumTypes \cup ValueTypes \cup StructTypes

\* TypeRegistry::new() registers the primitives; create_world() of the tests
\* registers the application's types.
PrimitiveTypes == {"u32", "f32", "bool"}
AppTypes ==
    { "ComponentA", "ComponentB", "ComponentC", "ComponentT", "ComponentS",
      "ResourceA", "ResourceB", "ResourceT", "ResourceS",
      "EnumA", "EnumS", "EnumT", "EnumD", "EnumP" }

Entities == {"E1", "E2", "E3"}

----------------------------------------------------------------------------
(* Reflected values.                                                       *)

U32(n) == [ty |-> "u32", n |-> n]
OpaqueVal(n) == [ty |-> "Opaque", n |-> n]
\* An f32: a number, or NaN.
F32(n, nan) == [ty |-> "f32", n |-> n, nan |-> nan]
EnumVal(ty, variant, fields) == [ty |-> ty, variant |-> variant, fields |-> fields]
StructVal(ty, fields) == [ty |-> ty, fields |-> fields]

\* No component of that type on the entity / no such resource in the World.
Absent == [ty |-> "Absent"]

\* DynamicEnum::new(variant_name, dynamic_variant)
DynamicEnum(variant, kind, fields) ==
    [ty |-> "DynamicEnum", variant |-> variant, kind |-> kind, fields |-> fields]

\* ReflectRef::Enum
IsEnum(v) == v.ty \in EnumTypes \cup {"DynamicEnum"}
IsValue(v) == v.ty \in ValueTypes

U32Values == {U32(n) : n \in 0..MaxU32}
OpaqueValues == {OpaqueVal(n) : n \in 0..MaxU32}
EnumAValues == {EnumVal("EnumA", "A", <<>>)} \cup {EnumVal("EnumA", "B", <<u>>) : u \in U32Values}
EnumSValues == {EnumVal("EnumS", "A", <<>>)}
EnumDValues == {EnumVal("EnumD", "Red", <<>>), EnumVal("EnumD", "Green", <<>>)}
EnumPValues == {EnumVal("EnumP", "X", <<>>), EnumVal("EnumP", "Y", <<>>)}
F32Values == {F32(0, FALSE), F32(0, TRUE)}
EnumTValues ==
    {EnumVal("EnumT", "P", <<>>), EnumVal("EnumT", "R", <<>>)}
        \cup {EnumVal("EnumT", "Q", <<u, o>>) : u \in U32Values, o \in OpaqueValues}

\* Enum::variant_index
VariantIndexOf(ty, name) ==
    CHOOSE i \in 1..Len(EnumInfo[ty]) : EnumInfo[ty][i].name = name
variant_index(v) == VariantIndexOf(v.ty, v.variant) - 1
\* Enum::variant_type
variant_type(v) ==
    IF v.ty = "DynamicEnum" THEN v.kind
    ELSE EnumInfo[v.ty][VariantIndexOf(v.ty, v.variant)].kind

\* <T as Default>::default() of the types that reflect Default
DefaultValue(type_id) ==
    CASE type_id = "u32" -> U32(0)
      [] type_id = "Opaque" -> OpaqueVal(0)
      [] type_id = "EnumA" -> EnumVal("EnumA", "A", <<>>)

----------------------------------------------------------------------------
(* bevy_reflect, as the library uses it.                                   *)

\* A parsed field path: "value2.0" is <<"value2", "0">>.  A segment is a
\* field name (struct) or a position (tuple struct, tuple variant).
TupleIndex(seg) ==
    CASE seg = "0" -> 1
      [] seg = "1" -> 2
      [] OTHER -> 0

\* One access of GetPath::reflect_path: the sub-value a segment names on the
\* CURRENT shape of v, or None.  An enum exposes the fields of its active
\* variant only.
Child(v, seg) ==
    IF v.ty \in NamedStructTypes
    THEN IF seg \in DOMAIN v.fields THEN Some(v.fields[seg]) ELSE None
    ELSE IF v.ty \in TupleStructTypes \cup EnumTypes
    THEN IF TupleIndex(seg) \in DOMAIN v.fields
         THEN Some(v.fields[TupleIndex(seg)])
         ELSE None
    ELSE None

\* GetPath::reflect_path / reflect_path_mut: Some(sub-value) or None (a
\* ReflectPathError in the code).
RECURSIVE reflect_path(_, _)
reflect_path(root, path) ==
    IF path = <<>> THEN Some(root)
    ELSE LET c == Child(root, Head(path))
         IN IF c.some THEN reflect_path(c.val, Tail(path)) ELSE None

\* root with the sub-value at path (which resolves) replaced by new: what a
\* write through the `&mut dyn Reflect` of reflect_path_mut leaves behind.
RECURSIVE WriteAtPath(_, _, _)
WriteAtPath(root, path, new) ==
    IF path = <<>> THEN new
    ELSE LET seg == Head(path)
             key == IF root.ty \in NamedStructTypes THEN seg ELSE TupleIndex(seg)
         IN [root EXCEPT !.fields[key] = WriteAtPath(root.fields[key], Tail(path), new)]

\* Reflect::reflect_partial_eq: Some(TRUE), Some(FALSE) or None (equality
\* undefined).  A value type compares through its PartialEq when it
\* reflects one and answers None otherwise; an f32 NaN equals nothing.  An
\* enum that reflects its own PartialEq downcasts the other value to its
\* type and answers Some(false) when that fails.  Any other enum compares
\* variant name, variant shape and fields (enum_partial_eq), not the type of
\* the other value; a field whose comparison answers Some(false) or None
\* makes the enums unequal.
RECURSIVE reflect_partial_eq(_, _)
RECURSIVE FieldsPartialEq(_, _, _)
FieldsPartialEq(a, b, i) ==
    IF i > Len(a) THEN Some(TRUE)
    ELSE IF reflect_partial_eq(b[i], a[i]) = Some(TRUE)
         THEN FieldsPartialEq(a, b, i + 1)
         ELSE Some(FALSE)

reflect_partial_eq(a, b) ==
    IF IsValue(a)
    THEN IF a.ty \in PartialEqTypes
         THEN IF b.ty # a.ty THEN Some(FALSE)
              ELSE IF a.ty = "f32" THEN Some(~a.nan /\ ~b.nan /\ a.n = b.n)
              ELSE Some(a.n = b.n)
         ELSE None
    ELSE IF a.ty \in ReflectPartialEqData
    THEN IF b.ty = a.ty THEN Some(a = b) ELSE Some(FALSE)
    ELSE IF IsEnum(a)
    THEN IF ~IsEnum(b) THEN Some(FALSE)
         ELSE IF a.variant # b.variant THEN Some(FALSE)
         ELSE IF variant_type(a) # variant_type(b) THEN Some(FALSE)
         ELSE IF Len(a.fields) # Len(b.fields) THEN Some(FALSE)
         ELSE FieldsPartialEq(a.fields, b.fields, 1)
    ELSE Some(FALSE)

\* Reflect::set(Box<dyn Reflect>): succeeds exactly when the boxed value is
\* of the sub-value's own concrete type.
reflect_set_ok(field, value) == value.ty = field.ty

\* An apply that takes the variant and keeps the payload the sub-value had.
enum_apply_keeps_fields(field, value) == EnumVal(field.ty, value.variant, field.fields)

\* An apply that leaves the sub-value at the variant it holds.
enum_apply_kept(field, value) == field

\* Reflect::apply of a derived enum with a DynamicEnum: the sub-value becomes
\* the named variant of its own type, holding the fields of the DynamicEnum.
enum_apply(field, value) == EnumVal(field.ty, value.variant, value.fields)

\* <dyn Reflect>::downcast_ref::<T>()
downcast_ref(field, T) == IF field.ty = T THEN Some(field) ELSE None

----------------------------------------------------------------------------
(* The World.                                                              *)

ComponentTypes ==
    { "ComponentA", "ComponentB", "ComponentC", "ComponentT", "ComponentS",
      "UnregisteredComponent" }
ResourceTypes ==
    {"ResourceA", "ResourceB", "ResourceT", "ResourceS", "NonReflectResource"}

\* What change detection is kept for: one component of one entity, or one
\* resource.
ComponentLoc(entity, type_id) == [entity |-> entity, type_id |-> type_id]
ResourceLoc(type_id) == [type_id |-> type_id]

\* EntityRef::get / ReflectComponent::reflect: the component, or Absent.
ComponentOf(w, entity, type_id) ==
    IF type_id \in ComponentTypes THEN w.components[entity][type_id] ELSE Absent
\* ReflectResource::reflect: the resource, or Absent.
ResourceOf(w, type_id) ==
    IF type_id \in ResourceTypes THEN w.resources[type_id] ELSE Absent

\* Mut<dyn Reflect>::deref_mut: every `&mut` access through the smart
\* pointer that ReflectComponent::reflect_mut / ReflectResource::reflect_mut
\* hand out marks the component or resource as changed, whether or not
\* anything is written afterwards.
set_changed(w, loc) == [w EXCEPT !.changed = @ \cup {loc}]

\* What a call returns: the World it leaves and its result.
Ret(w, result) == [world |-> w, result |-> result]

----------------------------------------------------------------------------
(* shared.rs                                                               *)

\* type_registry.get_type_data::<ReflectDefault>(type_id).map(default)
get_default_value_for(type_registry, type_id) ==
    IF type_id \in type_registry /\ type_id \in ReflectDefaultData
    THEN Some(DefaultValue(type_id))
    ELSE None

\* The loop over the fields of a tuple variant: the defaults of fields
\* i..Len, or None at the first field without one.
RECURSIVE DefaultFields(_, _, _)
DefaultFields(type_registry, field_types, i) ==
    IF i > Len(field_types) THEN Some(<<>>)
    ELSE LET field_default_value == get_default_value_for(type_registry, field_types[i])
         IN  IF ~field_default_value.some THEN None
             ELSE LET rest == DefaultFields(type_registry, field_types, i + 1)
                  IN  IF rest.some
                      THEN Some(<<field_default_value.val>> \o rest.val)
                      ELSE None

\* A construct_default_enum_variant that builds the variant from the fields
\* that have a default and leaves the others out.
construct_default_enum_variant_partial(variant, type_registry) ==
    Ok(DynamicEnum(variant.name, variant.kind,
                   SelectSeq([i \in DOMAIN variant.fields |->
                                  get_default_value_for(type_registry, variant.fields[i])],
                             LAMBDA d : d.some)))

construct_default_enum_variant(variant, type_registry) ==
    IF variant.kind = "Unit"
    THEN Ok(DynamicEnum(variant.name, "Unit", <<>>))
    ELSE LET fields == DefaultFields(type_registry, variant.fields, 1)
         IN  IF fields.some
             THEN Ok(DynamicEnum(variant.name, variant.kind, fields.val))
             ELSE Err("NoDefaultValue")

\* A serialized value: the RON text `{"<type path>": <body>}`.  The body
\* carries variant names and numbers and no type names; `pretty` is the
\* layout (to_string_pretty breaks lines and indents, to_string does not).
Text(type_path, body, pretty) ==
    [type_path |-> type_path, body |-> body, pretty |-> pretty]

\* A text that is not RON.
Malformed == Text("", [tok |-> "garbage"], FALSE)

\* ReflectSerializer: a value type is written by its ReflectSerialize, which
\* has to be registered; an enum is written variant by variant.
RECURSIVE Serializable(_, _)
Serializable(type_registry, value) ==
    IF IsValue(value)
    THEN value.ty \in type_registry /\ value.ty \in ReflectSerializeData
    ELSE \A i \in DOMAIN value.fields : Serializable(type_registry, value.fields[i])

\* An Encode that writes the variant name and leaves the payload out.
Encode_without_payload(value) ==
    CASE value.ty = "u32" -> [tok |-> "int", n |-> value.n]
      [] value.ty = "f32" -> [tok |-> "float", n |-> value.n, nan |-> value.nan]
      [] value.ty = "Opaque" -> [tok |-> "tuple", n |-> value.n]
      [] OTHER -> [tok |-> "variant", name |-> value.variant, args |-> <<>>]

RECURSIVE Encode(_)
Encode(value) ==
    CASE value.ty = "u32" -> [tok |-> "int", n |-> value.n]
      [] value.ty = "f32" -> [tok |-> "float", n |-> value.n, nan |-> value.nan]
      [] value.ty = "Opaque" -> [tok |-> "tuple", n |-> value.n]
      [] OTHER -> [tok |-> "variant", name |-> value.variant,
                   args |-> [i \in DOMAIN value.fields |-> Encode(value.fields[i])]]

serialize_reflect_value(type_registry, value) ==
    IF Serializable(type_registry, value)
    THEN Ok(Text(value.ty, Encode(value), FALSE))
    ELSE Err("Serialize")

\* ron::ser::to_string_pretty of the same serializer
serialize_reflect_value_pretty(type_registry, value) ==
    IF Serializable(type_registry, value)
    THEN Ok(Text(value.ty, Encode(value), TRUE))
    ELSE Err("Serialize")

\* TypedReflectDeserializer: the body read as a value of the registered type
\* type_id.  A type registered with ReflectDeserialize comes back as itself;
\* an enum without it comes back as a DynamicEnum; a value type without it
\* cannot be read.  None is a deserialization error.
RECURSIVE Decode(_, _, _)
RECURSIVE DecodeFields(_, _, _, _)
DecodeFields(type_registry, field_types, args, i) ==
    IF i > Len(field_types) THEN Some(<<>>)
    ELSE LET field == Decode(type_registry, field_types[i], args[i])
         IN  IF ~field.some THEN None
             ELSE LET rest == DecodeFields(type_registry, field_types, args, i + 1)
                  IN  IF rest.some THEN Some(<<field.val>> \o rest.val) ELSE None

Decode(type_registry, type_id, body) ==
    IF type_id \notin type_registry THEN None
    ELSE IF type_id \in EnumTypes
    THEN IF body.tok # "variant" THEN None
         ELSE IF \A i \in DOMAIN EnumInfo[type_id] : EnumInfo[type_id][i].name # body.name
         THEN None
         ELSE LET variant == EnumInfo[type_id][VariantIndexOf(type_id, body.name)]
              IN  IF Len(body.args) # Len(variant.fields) THEN None
                  ELSE LET fields == DecodeFields(type_registry, variant.fields, body.args, 1)
                       IN  IF ~fields.some THEN None
                           ELSE IF type_id \in ReflectDeserializeData
                           THEN Some(EnumVal(type_id, variant.name, fields.val))
                           ELSE Some(DynamicEnum(variant.name, variant.kind, fields.val))
    ELSE IF type_id \notin ReflectDeserializeData THEN None
    ELSE CASE type_id = "u32" /\ body.tok = "int" -> Some(U32(body.n))
           [] type_id = "f32" /\ body.tok = "float" -> Some(F32(body.n, body.nan))
           [] type_id = "Opaque" /\ body.tok = "tuple" -> Some(OpaqueVal(body.n))
           [] OTHER -> None

\* A deserialize_reflect_value that does not use ReflectDeserialize for enums:
\* every enum comes back as a DynamicEnum.
deserialize_reflect_value_dynamic(w, serialized_value) ==
    LET value == Decode(w.registry, serialized_value.type_path, serialized_value.body)
    IN  IF ~value.some THEN Err("Deserialize")
        ELSE IF value.val.ty \in EnumTypes
        THEN Ok(DynamicEnum(value.val.variant, variant_type(value.val), value.val.fields))
        ELSE Ok(value.val)

\* The layout of the text is not looked at.
deserialize_reflect_value(w, serialized_value) ==
    LET value == Decode(w.registry, serialized_value.type_path, serialized_value.body)
    IN  IF value.some THEN Ok(value.val) ELSE Err("Deserialize")

----------------------------------------------------------------------------
(* enum_utils.rs                                                           *)

\* Variants of get_next_index_in_direction, each wrong in one place: the
\* wrap flag is not looked at,
get_next_index_in_direction_always_wraps(index, length, direction, wrap) ==
    IF length = 1 \/ index > length - 1
    THEN None
    ELSE IF direction = Forward
         THEN IF index < length - 1 THEN Some(index + 1) ELSE Some(0)
         ELSE IF index > 0 THEN Some(index - 1) ELSE Some(length - 1)

\* the `length == 1` guard is missing,
get_next_index_in_direction_no_single_guard(index, length, direction, wrap) ==
    IF index > length - 1
    THEN None
    ELSE IF direction = Forward
         THEN IF index < length - 1 THEN Some(index + 1)
              ELSE IF wrap THEN Some(0)
              ELSE None
         ELSE IF index > 0 THEN Some(index - 1)
              ELSE IF wrap THEN Some(length - 1)
              ELSE None

\* the `index > length - 1` guard is missing.
get_next_index_in_direction_no_range_guard(index, length, direction, wrap) ==
    IF length = 1
    THEN None
    ELSE IF direction = Forward
         THEN IF index < length - 1 THEN Some(index + 1)
              ELSE IF wrap THEN Some(0)
              ELSE None
         ELSE IF index > 0 THEN Some(index - 1)
              ELSE IF wrap THEN Some(length - 1)
              ELSE None

\* `length` is the variant count of the type of a live enum value, so it is
\* at least 1 and `length - 1` does not wrap.
get_next_index_in_direction(index, length, direction, wrap) ==
    IF length = 1 \/ index > length - 1
    THEN None
    ELSE IF direction = Forward
         THEN IF index < length - 1 THEN Some(index + 1)
              ELSE IF wrap THEN Some(0)
              ELSE None
         ELSE IF index > 0 THEN Some(index - 1)
              ELSE IF wrap THEN Some(length - 1)
              ELSE None

\* NextEnumVariant::Ok(DynamicEnum) / NextEnumVariant::NoChanges
NextOk(value) == [next |-> "Ok", value |-> value]
NextNoChanges == [next |-> "NoChanges"]

\* A get_next_enum_variant that wraps whatever its `wrap` argument says.
get_next_enum_variant_wrapping(dyn_enum, type_registry, direction, wrap) ==
    LET index == variant_index(dyn_enum)
        enum_info == EnumInfo[dyn_enum.ty]
        n_variants == Len(enum_info)
        new_index == get_next_index_in_direction(index, n_variants, direction, TRUE)
    IN  IF new_index.some /\ new_index.val + 1 \in DOMAIN enum_info
        THEN LET r == construct_default_enum_variant(enum_info[new_index.val + 1],
                                                     type_registry)
             IN  IF IsOk(r) THEN Ok(NextOk(r.val)) ELSE r
        ELSE Ok(NextNoChanges)

get_next_enum_variant(dyn_enum, type_registry, direction, wrap) ==
    LET index == variant_index(dyn_enum)
        enum_info == EnumInfo[dyn_enum.ty]
        n_variants == Len(enum_info)
        new_index == get_next_index_in_direction(index, n_variants, direction, wrap)
    IN  IF new_index.some /\ new_index.val + 1 \in DOMAIN enum_info
        THEN LET r == construct_default_enum_variant(enum_info[new_index.val + 1],
                                                     type_registry)
             IN  IF IsOk(r) THEN Ok(NextOk(r.val)) ELSE r
        ELSE Ok(NextNoChanges)

\* The body of the closure of reflect_component_toggle_enum_variant and
\* reflect_resource_toggle_enum_variant (the two are the same text).
toggle_enum_variant_closure(field, type_registry, direction, wrap) ==
    IF IsEnum(field)
    THEN LET next_variant == get_next_enum_variant(field, type_registry, direction, wrap)
         IN  IF IsErr(next_variant)
             THEN [field |-> field, result |-> next_variant]
             ELSE IF next_variant.val.next = "Ok"
             THEN [field |-> enum_apply(field, next_variant.val.value),
                   result |-> Ok(Changed)]
             ELSE [field |-> field, result |-> Ok(NoChanges)]
    ELSE [field |-> field, result |-> Err("InvalidDowncast")]

----------------------------------------------------------------------------
(* The closures the library passes to its with_* helpers, as data.         *)

\* |reflect_field| of reflect_component_set_path / reflect_resource_set_path
SetClosure(value) == [fn |-> "set", value |-> value]
\* |field| of reflect_component_toggle_enum_variant and of its resource twin
ToggleClosure(direction, wrap) == [fn |-> "toggle", direction |-> direction, wrap |-> wrap]
\* |field| of reflect_component_read_path / reflect_resource_read_path
DowncastClosure(T) == [fn |-> "downcast", T |-> T]
\* |field| of reflect_component_read_path_serialized (to_string) and of
\* reflect_resource_read_path_serialized (to_string_pretty)
SerializeClosure(pretty) == [fn |-> "serialize", pretty |-> pretty]
\* |reflect_field| of reflect_component_partial_eq_serialized and of its
\* resource twin
PartialEqClosure(value) == [fn |-> "partial_eq", value |-> value]

\* Variants of the closure below, each wrong in one place: Changed is
\* reported and nothing is assigned,
set_path_closure_unassigned(reflect_field, value) ==
    LET is_eq == reflect_partial_eq(reflect_field, value)
    IN  IF is_eq = Some(TRUE)
        THEN [field |-> reflect_field, result |-> Ok(NoChanges)]
        ELSE IF reflect_set_ok(reflect_field, value)
             THEN [field |-> reflect_field, result |-> Ok(Changed)]
             ELSE [field |-> reflect_field, result |-> Err("SetValueFailed")]

\* the equality guard is missing,
set_path_closure_unguarded(reflect_field, value) ==
    IF reflect_set_ok(reflect_field, value)
    THEN [field |-> value, result |-> Ok(Changed)]
    ELSE [field |-> reflect_field, result |-> Err("SetValueFailed")]

\* a rejected assignment still replaces the sub-value.
set_path_closure_forced(reflect_field, value) ==
    LET is_eq == reflect_partial_eq(reflect_field, value)
    IN  IF is_eq = Some(TRUE)
        THEN [field |-> reflect_field, result |-> Ok(NoChanges)]
        ELSE IF reflect_set_ok(reflect_field, value)
             THEN [field |-> value, result |-> Ok(Changed)]
             ELSE [field |-> value, result |-> Err("SetValueFailed")]

\* The body of the closure of reflect_component_set_path and
\* reflect_resource_set_path (the two are the same text): the sub-value it
\* leaves, and its result.
set_path_closure(reflect_field, value) ==
    LET is_eq == reflect_partial_eq(reflect_field, value)
    IN  IF is_eq = Some(TRUE)
        THEN [field |-> reflect_field, result |-> Ok(NoChanges)]
        ELSE IF reflect_set_ok(reflect_field, value)
             THEN [field |-> value, result |-> Ok(Changed)]
             ELSE [field |-> reflect_field, result |-> Err("SetValueFailed")]

\* The body of the closure of reflect_component_read_path and
\* reflect_resource_read_path.
read_path_closure(field, T) ==
    LET d == downcast_ref(field, T)
    IN  IF d.some THEN Ok(d.val) ELSE Err("InvalidDowncast")

\* A partial_eq closure that answers "not equal" when equality is undefined.
partial_eq_closure_defaulting(reflect_field, value) ==
    LET is_eq == reflect_partial_eq(reflect_field, value)
    IN  IF is_eq.some THEN Ok(is_eq.val) ELSE Ok(FALSE)

\* The body of the closure of reflect_component_partial_eq_serialized and
\* reflect_resource_partial_eq_serialized.
partial_eq_closure(reflect_field, value) ==
    LET is_eq == reflect_partial_eq(reflect_field, value)
    IN  IF is_eq.some THEN Ok(is_eq.val) ELSE Err("PartialEq")

\* update_fn(reflect_field)
CallUpdate(update_fn, reflect_field, type_registry) ==
    CASE update_fn.fn = "set" -> set_path_closure(reflect_field, update_fn.value)
      [] update_fn.fn = "toggle" ->
            toggle_enum_variant_closure(reflect_field, type_registry,
                                        update_fn.direction, update_fn.wrap)

\* read_fn(field)
CallRead(read_fn, field, type_registry) ==
    CASE read_fn.fn = "downcast" -> read_path_closure(field, read_fn.T)
      [] read_fn.fn = "serialize" ->
            IF read_fn.pretty
            THEN serialize_reflect_value_pretty(type_registry, field)
            ELSE serialize_reflect_value(type_registry, field)
      [] read_fn.fn = "partial_eq" -> partial_eq_closure(field, read_fn.value)

----------------------------------------------------------------------------
(* reflect_component.rs                                                    *)

\* A with_component_reflect_field that looks for the reflection data of the
\* type without asking first whether the type is registered.
with_component_reflect_field_no_registration(w, entity, component_type_id, field_path, read_fn) ==
    IF component_type_id \notin ReflectComponentData
    THEN Err("TypeRegistrationInvalidCast")
    ELSE IF ComponentOf(w, entity, component_type_id) = Absent
    THEN Err("EntityDoesNotHaveComponent")
    ELSE LET dyn_reflect == ComponentOf(w, entity, component_type_id)
             field == reflect_path(dyn_reflect, field_path)
         IN  IF field.some
             THEN CallRead(read_fn, field.val, w.registry)
             ELSE Err("ReflectPath")

\* A with_component_reflect_field that, when the path does not resolve on the
\* component as it is, resolves it on the component as it was one call
\* earlier.
with_component_reflect_field_stale(w, entity, component_type_id, field_path, read_fn) ==
    IF component_type_id \notin w.registry
    THEN Err("TypeRegistrationNotFound")
    ELSE IF component_type_id \notin ReflectComponentData
    THEN Err("TypeRegistrationInvalidCast")
    ELSE IF ComponentOf(w, entity, component_type_id) = Absent
    THEN Err("EntityDoesNotHaveComponent")
    ELSE LET dyn_reflect == ComponentOf(w, entity, component_type_id)
             now == reflect_path(dyn_reflect, field_path)
             field == IF now.some THEN now
                      ELSE reflect_path(ComponentOf(before, entity, component_type_id),
                                        field_path)
         IN  IF field.some
             THEN CallRead(read_fn, field.val, w.registry)
             ELSE Err("ReflectPath")

with_component_reflect_field(w, entity, component_type_id, field_path, read_fn) ==
    IF component_type_id \notin w.registry
    THEN Err("TypeRegistrationNotFound")
    ELSE IF component_type_id \notin ReflectComponentData
    THEN Err("TypeRegistrationInvalidCast")
    ELSE IF ComponentOf(w, entity, component_type_id) = Absent
    THEN Err("EntityDoesNotHaveComponent")
    ELSE LET dyn_reflect == ComponentOf(w, entity, component_type_id)
             field == reflect_path(dyn_reflect, field_path)
         IN  IF field.some
             THEN CallRead(read_fn, field.val, w.registry)
             ELSE Err("ReflectPath")

\* A helper that writes the updated component to every entity that has a
\* component of the type.
with_reflect_component_field_mut_world_every_entity(w, component_type_id, entity, path, update_fn) ==
    IF component_type_id \notin w.registry
    THEN Ret(w, Err("TypeRegistrationNotFound"))
    ELSE IF component_type_id \notin ReflectComponentData
    THEN Ret(w, Err("TypeRegistrationInvalidCast"))
    ELSE IF entity \notin w.alive
    THEN Ret(w, Err("EntityNotFound"))
    ELSE IF ComponentOf(w, entity, component_type_id) = Absent
    THEN Ret(w, Err("EntityDoesNotHaveComponent"))
    ELSE LET dyn_reflect == ComponentOf(w, entity, component_type_id)
             marked == set_changed(w, ComponentLoc(entity, component_type_id))
             reflect_field == reflect_path(dyn_reflect, path)
         IN  IF reflect_field.some
             THEN LET u == CallUpdate(update_fn, reflect_field.val, w.registry)
                      written == WriteAtPath(dyn_reflect, path, u.field)
                  IN  Ret([marked EXCEPT !.components =
                              [e \in Entities |->
                                  IF w.components[e][component_type_id] # Absent
                                  THEN [w.components[e] EXCEPT ![component_type_id] = written]
                                  ELSE w.components[e]]],
                          u.result)
             ELSE Ret(marked, Err("ReflectPath"))

with_reflect_component_field_mut_world(w, component_type_id, entity, path, update_fn) ==
    IF component_type_id \notin w.registry
    THEN Ret(w, Err("TypeRegistrationNotFound"))
    ELSE IF component_type_id \notin ReflectComponentData
    THEN Ret(w, Err("TypeRegistrationInvalidCast"))
    ELSE IF entity \notin w.alive
    THEN Ret(w, Err("EntityNotFound"))
    ELSE IF ComponentOf(w, entity, component_type_id) = Absent
    THEN Ret(w, Err("EntityDoesNotHaveComponent"))
    ELSE LET dyn_reflect == ComponentOf(w, entity, component_type_id)
             \* dyn_reflect.reflect_path_mut(path) goes through deref_mut
             marked == set_changed(w, ComponentLoc(entity, component_type_id))
             reflect_field == reflect_path(dyn_reflect, path)
         IN  IF reflect_field.some
             THEN LET u == CallUpdate(update_fn, reflect_field.val, w.registry)
                  IN  Ret([marked EXCEPT !.components[entity][component_type_id] =
                                      WriteAtPath(dyn_reflect, path, u.field)],
                          u.result)
             ELSE Ret(marked, Err("ReflectPath"))

reflect_component_read_path(w, entity, component_type_id, path, T) ==
    with_component_reflect_field(w, entity, component_type_id, path, DowncastClosure(T))

reflect_component_read_path_from_world(w, entity, component_type_id, path, T) ==
    IF entity \notin w.alive
    THEN Err("EntityNotFound")
    ELSE reflect_component_read_path(w, entity, component_type_id, path, T)

reflect_component_set_path(w, component_type_id, entity, path, value) ==
    with_reflect_component_field_mut_world(w, component_type_id, entity, path,
                                           SetClosure(value))

reflect_component_read_path_serialized(w, entity, component_type_id, path) ==
    IF entity \notin w.alive
    THEN Err("EntityNotFound")
    ELSE with_component_reflect_field(w, entity, component_type_id, path,
                                      SerializeClosure(FALSE))

\* A partial_eq that looks for the entity before it deserializes the text.
reflect_component_partial_eq_serialized_entity_first(w, entity, component_type_id, path, serialized_value) ==
    LET value == deserialize_reflect_value(w, serialized_value)
    IN  IF entity \notin w.alive THEN Err("EntityNotFound")
        ELSE IF IsErr(value) THEN value
        ELSE with_component_reflect_field(w, entity, component_type_id, path,
                                          PartialEqClosure(value.val))

reflect_component_partial_eq_serialized(w, entity, component_type_id, path, serialized_value) ==
    LET value == deserialize_reflect_value(w, serialized_value)
    IN  IF IsErr(value) THEN value
        ELSE IF entity \notin w.alive THEN Err("EntityNotFound")
        ELSE with_component_reflect_field(w, entity, component_type_id, path,
                                          PartialEqClosure(value.val))

reflect_component_set_path_serialized(w, entity, component_type_id, path, serialized_value) ==
    LET value == deserialize_reflect_value(w, serialized_value)
    IN  IF IsErr(value) THEN Ret(w, value)
        ELSE with_reflect_component_field_mut_world(w, component_type_id, entity, path,
                                                    SetClosure(value.val))

----------------------------------------------------------------------------
(* reflect_resource.rs                                                     *)

with_resource_reflect(w, resource_type_id) ==
    IF resource_type_id \notin w.registry
    THEN Err("TypeRegistrationNotFound")
    ELSE IF resource_type_id \notin ReflectResourceData
    THEN Err("TypeRegistrationInvalidCast")
    ELSE IF ResourceOf(w, resource_type_id) = Absent
    THEN Err("ResourceDoesNotExist")
    ELSE Ok(ResourceOf(w, resource_type_id))

with_resource_reflect_field(w, resource_type_id, path, read_fn) ==
    LET r == with_resource_reflect(w, resource_type_id)
    IN  IF IsErr(r) THEN r
        ELSE LET field == reflect_path(r.val, path)
             IN  IF field.some
                 THEN CallRead(read_fn, field.val, w.registry)
                 ELSE Err("ReflectPath")

with_resource_reflect_field_mut(w, resource_type_id, path, update_fn) ==
    IF resource_type_id \notin w.registry
    THEN Ret(w, Err("TypeRegistrationNotFound"))
    ELSE IF resource_type_id \notin ReflectResourceData
    THEN Ret(w, Err("TypeRegistrationInvalidCast"))
    ELSE IF ResourceOf(w, resource_type_id) = Absent
    THEN Ret(w, Err("ResourceDoesNotExist"))
    ELSE LET dyn_reflect == ResourceOf(w, resource_type_id)
             \* dyn_reflect.reflect_path_mut(path) goes through deref_mut
             marked == set_changed(w, ResourceLoc(resource_type_id))
             reflect_field == reflect_path(dyn_reflect, path)
         IN  IF reflect_field.some
             THEN LET u == CallUpdate(update_fn, reflect_field.val, w.registry)
                  IN  Ret([marked EXCEPT !.resources[resource_type_id] =
                                      WriteAtPath(dyn_reflect, path, u.field)],
                          u.result)
             ELSE Ret(marked, Err("ReflectPath"))

reflect_resource_read_path(w, resource_type_id, path, T) ==
    with_resource_reflect_field(w, resource_type_id, path, DowncastClosure(T))

reflect_resource_set_path(w, resource_type_id, path, value) ==
    with_resource_reflect_field_mut(w, resource_type_id, path, SetClosure(value))

reflect_resource_read_path_serialized(w, resource_type_id, path) ==
    with_resource_reflect_field(w, resource_type_id, path, SerializeClosure(TRUE))

reflect_resource_set_path_serialized(w, resource_type_id, path, serialized_value) ==
    LET value == deserialize_reflect_value(w, serialized_value)
    IN  IF IsErr(value) THEN Ret(w, value)
        ELSE with_resource_reflect_field_mut(w, resource_type_id, path,
                                             SetClosure(value.val))

reflect_resource_partial_eq_serialized(w, resource_type_id, path, serialized_value) ==
    LET value == deserialize_reflect_value(w, serialized_value)
    IN  IF IsErr(value) THEN value
        ELSE with_resource_reflect_field(w, resource_type_id, path,
                                         PartialEqClosure(value.val))

----------------------------------------------------------------------------
(* enum_utils.rs: the toggles.                                             *)

reflect_component_toggle_enum_variant(w, component_type_id, entity, path, direction, wrap) ==
    with_reflect_component_field_mut_world(w, component_type_id, entity, path,
                                           ToggleClosure(direction, wrap))

reflect_resource_toggle_enum_variant(w, resource_type_id, path, direction, wrap) ==
    with_resource_reflect_field_mut(w, resource_type_id, path,
                                    ToggleClosure(direction, wrap))

----------------------------------------------------------------------------
(* reflect_target.rs                                                       *)

\* ReflectKind::Component(entity, type_id) / ReflectKind::Resource(type_id)
\* with the field path: a ReflectTarget.
new_component(entity, type_id, field_path) ==
    [kind |-> "Component", entity |-> entity, type_id |-> type_id, field_path |-> field_path]
new_resource(type_id, field_path) ==
    [kind |-> "Resource", type_id |-> type_id, field_path |-> field_path]

\* A read_value that answers from the World as it was one call earlier.
read_value_stale(self, w, T) ==
    IF self.kind = "Component"
    THEN reflect_component_read_path_from_world(before, self.entity, self.type_id,
                                                self.field_path, T)
    ELSE reflect_resource_read_path(before, self.type_id, self.field_path, T)

read_value(self, w, T) ==
    IF self.kind = "Component"
    THEN reflect_component_read_path_from_world(w, self.entity, self.type_id, self.field_path, T)
    ELSE reflect_resource_read_path(w, self.type_id, self.field_path, T)

set_value(self, w, value) ==
    IF self.kind = "Component"
    THEN reflect_component_set_path(w, self.type_id, self.entity, self.field_path, value)
    ELSE reflect_resource_set_path(w, self.type_id, self.field_path, value)

\* A toggle_reflect_enum that passes wrap = true.
toggle_reflect_enum_wrapping(self, w, direction) ==
    IF self.kind = "Component"
    THEN reflect_component_toggle_enum_variant(w, self.type_id, self.entity,
                                               self.field_path, direction, TRUE)
    ELSE reflect_resource_toggle_enum_variant(w, self.type_id, self.field_path,
                                              direction, TRUE)

toggle_reflect_enum(self, w, direction) ==
    IF self.kind = "Component"
    THEN reflect_component_toggle_enum_variant(w, self.type_id, self.entity,
                                               self.field_path, direction, FALSE)
    ELSE reflect_resource_toggle_enum_variant(w, self.type_id, self.field_path,
                                              direction, FALSE)

read_value_serialized(self, w) ==
    IF self.kind = "Component"
    THEN reflect_component_read_path_serialized(w, self.entity, self.type_id, self.field_path)
    ELSE reflect_resource_read_path_serialized(w, self.type_id, self.field_path)

set_value_serialized(self, w, value) ==
    IF self.kind = "Component"
    THEN reflect_component_set_path_serialized(w, self.entity, self.type_id,
                                               self.field_path, value)
    ELSE reflect_resource_set_path_serialized(w, self.type_id, self.field_path, value)

partial_eq_serialized(self, w, serialized_value) ==
    IF self.kind = "Component"
    THEN reflect_component_partial_eq_serialized(w, self.entity, self.type_id,
                                                 self.field_path, serialized_value)
    ELSE reflect_resource_partial_eq_serialized(w, self.type_id, self.field_path,
                                                serialized_value)

----------------------------------------------------------------------------
(* Specification Spec: reads, guarded sets and enum toggles on a World     *)
(* populated as the unit tests populate theirs.                            *)

NoComponents == [t \in ComponentTypes |-> Absent]
NoResources == [t \in ResourceTypes |-> Absent]

ComponentA(value1, value2) ==
    StructVal("ComponentA", [value1 |-> value1, value2 |-> value2])
ResourceA(value1, value2) ==
    StructVal("ResourceA", [value1 |-> value1, value2 |-> value2])

\* create_world() of the tests, then one entity spawned with a ComponentA
\* and a ComponentC, a second one with a ComponentA, and a ResourceA and a
\* ResourceT inserted.  Insertion marks what it inserts as changed.
\* E2 is an entity id that is not alive; ResourceB is registered and absent.
InitWorld ==
    [ registry |-> PrimitiveTypes \cup AppTypes \cup {"Opaque"},
      alive |-> {"E1", "E3"},
      components |->
          [e \in Entities |->
              IF e = "E1"
              THEN [NoComponents EXCEPT
                        !["ComponentA"] = ComponentA(EnumVal("EnumA", "B", <<U32(MaxU32)>>),
                                                     EnumVal("EnumA", "A", <<>>)),
                        !["ComponentC"] = StructVal("ComponentC", <<U32(0)>>)]
              ELSE IF e = "E3"
              THEN [NoComponents EXCEPT
                        !["ComponentA"] = ComponentA(EnumVal("EnumA", "A", <<>>),
                                                     EnumVal("EnumA", "B", <<U32(0)>>))]
              ELSE NoComponents],
      resources |->
          [NoResources EXCEPT
              !["ResourceA"] = ResourceA(EnumVal("EnumA", "A", <<>>), OpaqueVal(0)),
              !["ResourceT"] = StructVal("ResourceT",
                                         [value |-> EnumVal("EnumT", "P", <<>>),
                                          single |-> EnumVal("EnumS", "A", <<>>)])],
      changed |-> { ComponentLoc("E1", "ComponentA"), ComponentLoc("E1", "ComponentC"),
                    ComponentLoc("E3", "ComponentA"), ResourceLoc("ResourceA"),
                    ResourceLoc("ResourceT") } ]

\* Targets that resolve ("value1.0" while value1 is a B only).
GoodTargets ==
    { new_component("E1", "ComponentA", <<"value1">>),
      new_component("E1", "ComponentA", <<"value1", "0">>),
      new_resource("ResourceA", <<"value1">>),
      new_resource("ResourceA", <<"value1", "0">>),
      new_resource("ResourceA", <<"value2">>) }

\* Targets that fail to resolve, one per cause.
BadTargets ==
    { new_component("E1", "UnregisteredComponent", <<"value">>),  \* not registered
      new_component("E1", "ResourceA", <<"value1">>),     \* no ReflectComponent data
      new_component("E2", "ComponentA", <<"value1">>),    \* entity not alive
      new_component("E1", "ComponentB", <<"value">>),     \* entity lacks the component
      new_component("E1", "ComponentA", <<"invalid_path">>),
      new_resource("NonReflectResource", <<"value1">>),   \* not registered
      new_resource("ComponentA", <<"value1">>),           \* no ReflectResource data
      new_resource("ResourceB", <<"value1">>),            \* resource absent
      new_resource("ResourceA", <<"not_a_field">>) }

Targets == GoodTargets \cup BadTargets

\* The values a caller hands to set_value.
SetValues == EnumAValues \cup EnumSValues \cup U32Values \cup OpaqueValues
\* The types a caller asks read_value for.
ReadTypes == {"EnumA", "u32", "Opaque"}

\* The calls made: every value, type, direction and wrap flag on the targets
\* that resolve, and one call of each operation on each target that does
\* not (its arguments are never looked at).
SetInputs ==
    (GoodTargets \X SetValues) \cup (BadTargets \X {EnumVal("EnumA", "A", <<>>)})
ReadInputs == (GoodTargets \X ReadTypes) \cup (BadTargets \X {"EnumA"})
ToggleInputs ==
    (GoodTargets \X EnumDirection \X BOOLEAN) \cup (BadTargets \X {Forward} \X {FALSE})

Init ==
    /\ world = InitWorld
    /\ before = InitWorld
    /\ last = [op |-> "init"]

\* target.set_value(world, value)
SetValue(target, value) ==
    LET r == set_value(target, world, value)
    IN  /\ world' = r.world
        /\ before' = world
        /\ last' = [op |-> "set_value", target |-> target, value |-> value,
                    result |-> r.result]

\* target.read_value::<T>(world)
ReadValue(target, T) ==
    /\ world' = world
    /\ before' = world
    /\ last' = [op |-> "read_value", target |-> target, T |-> T,
                result |-> read_value(target, world, T)]

\* reflect_component_toggle_enum_variant / reflect_resource_toggle_enum_variant
\* on the place a target names
ToggleEnumVariant(target, direction, wrap) ==
    LET r == IF target.kind = "Component"
             THEN reflect_component_toggle_enum_variant(
                      world, target.type_id, target.entity, target.field_path,
                      direction, wrap)
             ELSE reflect_resource_toggle_enum_variant(
                      world, target.type_id, target.field_path, direction, wrap)
    IN  /\ world' = r.world
        /\ before' = world
        /\ last' = [op |-> "toggle_enum_variant", target |-> target,
                    direction |-> direction, wrap |-> wrap, result |-> r.result]

\* The application's frame ends: what was marked changed has been seen
\* (World::clear_trackers / the change ticks of the observing systems).
ClearTrackers ==
    /\ world.changed # {}
    /\ world' = [world EXCEPT !.changed = {}]
    /\ before' = world
    /\ last' = [op |-> "clear_trackers"]

Next ==
    \/ \E in \in SetInputs : SetValue(in[1], in[2])
    \/ \E in \in ReadInputs : ReadValue(in[1], in[2])
    \/ \E in \in ToggleInputs : ToggleEnumVariant(in[1], in[2], in[3])
    \/ ClearTrackers

Spec == Init /\ [][Next]_vars

----------------------------------------------------------------------------
(* Specification SpecIndex: get_next_index_in_direction on every index,    *)
(* length, direction and wrap flag within the bounds.                      *)

IndexInit ==
    /\ world = InitWorld
    /\ before = InitWorld
    /\ \E index \in 0..MaxIndex, length \in 1..MaxLength,
          direction \in EnumDirection, wrap \in BOOLEAN :
           last = [op |-> "input", index |-> index, length |-> length,
                   direction |-> direction, wrap |-> wrap]

NextIndex ==
    /\ last.op = "input"
    /\ last' = [last EXCEPT !.op = "get_next_index_in_direction"] @@
               [result |-> get_next_index_in_direction(last.index, last.length,
                                                       last.direction, last.wrap)]
    /\ UNCHANGED <<world, before>>

SpecIndex == IndexInit /\ [][NextIndex]_vars

----------------------------------------------------------------------------
(* Specification SpecCycle: one enum field toggled again and again in one  *)
(* direction with one wrap flag, from every starting value, on a component *)
(* and on a resource, with and without a registered default for the        *)
(* payload of EnumT::Q.                                                    *)

ComponentT(value, single) ==
    StructVal("ComponentT", [value |-> value, single |-> single])
ResourceT(value, single) ==
    StructVal("ResourceT", [value |-> value, single |-> single])

CycleWorld(a, t, registry) ==
    [ registry |-> registry,
      alive |-> {"E1"},
      components |->
          [e \in Entities |->
              IF e = "E1"
              THEN [NoComponents EXCEPT
                        !["ComponentA"] = ComponentA(a, a),
                        !["ComponentT"] = ComponentT(t, EnumVal("EnumS", "A", <<>>))]
              ELSE NoComponents],
      resources |->
          [NoResources EXCEPT
              !["ResourceT"] = ResourceT(t, EnumVal("EnumS", "A", <<>>))],
      changed |-> {} ]

\* The enum fields that are toggled.
CycleTargets ==
    { new_component("E1", "ComponentA", <<"value1">>),   \* EnumA, 2 variants
      new_component("E1", "ComponentT", <<"value">>),    \* EnumT, 3 variants
      new_component("E1", "ComponentT", <<"single">>),   \* EnumS, 1 variant
      new_resource("ResourceT", <<"value">>),
      new_resource("ResourceT", <<"single">>) }

CycleInit ==
    \E a \in EnumAValues, t \in EnumTValues,
       registry \in {PrimitiveTypes \cup AppTypes, PrimitiveTypes \cup AppTypes \cup {"Opaque"}},
       target \in CycleTargets, direction \in EnumDirection, wrap \in BOOLEAN :
        /\ world = CycleWorld(a, t, registry)
        /\ before = world
        /\ last = [op |-> "cycle_start", target |-> target, direction |-> direction,
                   wrap |-> wrap, steps |-> 0, changes |-> 0,
                   start |-> reflect_path(
                                 IF target.kind = "Component"
                                 THEN ComponentOf(world, target.entity, target.type_id)
                                 ELSE ResourceOf(world, target.type_id),
                                 target.field_path).val,
                   result |-> Ok(NoChanges)]

\* One more toggle of the run.
CycleStep ==
    /\ last.steps < MaxSteps
    /\ LET target == last.target
           r == IF target.kind = "Component"
                THEN reflect_component_toggle_enum_variant(
                         world, target.type_id, target.entity, target.field_path,
                         last.direction, last.wrap)
                ELSE reflect_resource_toggle_enum_variant(
                         world, target.type_id, target.field_path,
                         last.direction, last.wrap)
       IN  /\ world' = r.world
           /\ before' = world
           /\ last' = [last EXCEPT
                          !.op = "cycle_toggle",
                          !.steps = @ + 1,
                          !.changes = IF r.result = Ok(Changed) THEN @ + 1 ELSE @,
                          !.result = r.result]

\* One more toggle of the run, made with target.toggle_reflect_enum(world,
\* direction).  The method takes no wrap flag, so it is a step of the runs
\* that are made without wrap.
CycleTargetStep ==
    /\ last.steps < MaxSteps
    /\ ~last.wrap
    /\ LET r == toggle_reflect_enum(last.target, world, last.direction)
       IN  /\ world' = r.world
           /\ before' = world
           /\ last' = [last EXCEPT
                          !.op = "target_toggle",
                          !.steps = @ + 1,
                          !.changes = IF r.result = Ok(Changed) THEN @ + 1 ELSE @,
                          !.result = r.result]

SpecCycle == CycleInit /\ [][CycleStep \/ CycleTargetStep]_vars

----------------------------------------------------------------------------
(* Specification SpecBind: one ReflectTarget, built before what it names   *)
(* exists, used while the application spawns and despawns the entity,      *)
(* inserts and removes the component, inserts and removes the resource.    *)

\* A World with the types registered, one entity and nothing stored.
BindWorld ==
    [ registry |-> PrimitiveTypes \cup AppTypes \cup {"Opaque"},
      alive |-> {"E1"},
      components |-> [e \in Entities |-> NoComponents],
      resources |-> NoResources,
      changed |-> {} ]

BindTargets ==
    { new_component("E1", "ComponentA", <<"value1">>),   \* entity without the component
      new_component("E2", "ComponentA", <<"value1">>),   \* entity not spawned yet
      new_resource("ResourceA", <<"value1">>) }          \* resource not inserted yet

\* `failed`, `succeeded`: an operation on the target has failed while the
\* instance was absent, and one has succeeded after that.
BindInit ==
    /\ world = BindWorld
    /\ before = BindWorld
    /\ \E target \in BindTargets :
           last = [op |-> "new", target |-> target, T |-> "EnumA",
                   value |-> EnumVal("EnumA", "A", <<>>), result |-> Ok(NoChanges),
                   failed |-> FALSE, succeeded |-> FALSE]

\* What the record of the call keeps of the calls before it.
BindHistory(result) ==
    [last EXCEPT !.failed = @ \/ IsErr(result),
                 !.succeeded = @ \/ (last.failed /\ IsOk(result))]

\* World::spawn with the entity id of the target
BindSpawn ==
    /\ last.target.kind = "Component"
    /\ last.target.entity \notin world.alive
    /\ world' = [world EXCEPT !.alive = @ \cup {last.target.entity}]
    /\ before' = world
    /\ last' = [last EXCEPT !.op = "spawn"]

\* World::despawn: the entity goes, and its components with it
BindDespawn ==
    /\ last.target.kind = "Component"
    /\ last.target.entity \in world.alive
    /\ world' = [world EXCEPT !.alive = @ \ {last.target.entity},
                              !.components[last.target.entity] = NoComponents,
                              !.changed = {loc \in @ : "entity" \in DOMAIN loc
                                                           => loc.entity # last.target.entity}]
    /\ before' = world
    /\ last' = [last EXCEPT !.op = "despawn"]

\* EntityWorldMut::insert(ComponentA { .. }) / World::insert_resource(ResourceA { .. })
BindInsert(value1) ==
    /\ IF last.target.kind = "Component"
       THEN /\ last.target.entity \in world.alive
            /\ world' = set_changed(
                   [world EXCEPT !.components[last.target.entity]["ComponentA"] =
                                      ComponentA(value1, EnumVal("EnumA", "A", <<>>))],
                   ComponentLoc(last.target.entity, "ComponentA"))
       ELSE world' = set_changed(
                   [world EXCEPT !.resources["ResourceA"] = ResourceA(value1, OpaqueVal(0))],
                   ResourceLoc("ResourceA"))
    /\ before' = world
    /\ last' = [last EXCEPT !.op = "insert"]

\* EntityWorldMut::remove::<ComponentA>() / World::remove_resource::<ResourceA>()
BindRemove ==
    /\ IF last.target.kind = "Component"
       THEN /\ last.target.entity \in world.alive
            /\ ComponentOf(world, last.target.entity, "ComponentA") # Absent
            /\ world' = [world EXCEPT
                            !.components[last.target.entity]["ComponentA"] = Absent,
                            !.changed = @ \ {ComponentLoc(last.target.entity, "ComponentA")}]
       ELSE /\ ResourceOf(world, "ResourceA") # Absent
            /\ world' = [world EXCEPT !.resources["ResourceA"] = Absent,
                                      !.changed = @ \ {ResourceLoc("ResourceA")}]
    /\ before' = world
    /\ last' = [last EXCEPT !.op = "remove"]

\* target.read_value::<EnumA>(world)
BindRead ==
    LET result == read_value(last.target, world, "EnumA")
    IN  /\ world' = world
        /\ before' = world
        /\ last' = [BindHistory(result) EXCEPT !.op = "read_value", !.result = result]

\* target.set_value(world, value)
BindSet(value) ==
    LET r == set_value(last.target, world, value)
    IN  /\ world' = r.world
        /\ before' = world
        /\ last' = [BindHistory(r.result) EXCEPT
                       !.op = "set_value", !.value = value, !.result = r.result]

BindNext ==
    \/ BindSpawn
    \/ BindDespawn
    \/ \E value1 \in EnumAValues : BindInsert(value1)
    \/ BindRemove
    \/ BindRead
    \/ \E value \in EnumAValues : BindSet(value)

SpecBind == BindInit /\ [][BindNext]_vars

----------------------------------------------------------------------------
(* Specification SpecSerde: the serialized operations on one field of a    *)
(* component or of a resource, for fields of every capability mix (with    *)
(* and without reflected equality, with and without ReflectDeserialize).   *)

SerdeFields(e, d, p, o, f, t) ==
    [e |-> e, d |-> d, p |-> p, o |-> o, f |-> f, t |-> t]

\* The field values every run starts from, but for the field it targets.
SerdeDefaults ==
    SerdeFields(EnumVal("EnumA", "A", <<>>), EnumVal("EnumD", "Red", <<>>),
                EnumVal("EnumP", "X", <<>>), OpaqueVal(0), F32(0, FALSE),
                EnumVal("EnumT", "P", <<>>))

\* The values of a reflected type.
ValuesOfType(type_id) ==
    CASE type_id = "EnumA" -> EnumAValues
      [] type_id = "EnumD" -> EnumDValues
      [] type_id = "EnumP" -> EnumPValues
      [] type_id = "EnumT" -> EnumTValues
      [] type_id = "Opaque" -> OpaqueValues
      [] type_id = "f32" -> F32Values
      [] type_id = "u32" -> U32Values

SerdeWorld(fields) ==
    [ registry |-> PrimitiveTypes \cup AppTypes \cup {"Opaque"},
      alive |-> {"E1"},
      components |->
          [e \in Entities |->
              IF e = "E1"
              THEN [NoComponents EXCEPT !["ComponentS"] = StructVal("ComponentS", fields)]
              ELSE NoComponents],
      resources |-> [NoResources EXCEPT !["ResourceS"] = StructVal("ResourceS", fields)],
      changed |-> {} ]

SerdePaths ==
    { <<"e">>, <<"e", "0">>, <<"d">>, <<"p">>, <<"o">>, <<"f">>, <<"t">> }

SerdeTargets ==
    {new_component("E1", "ComponentS", path) : path \in SerdePaths}
        \cup {new_resource("ResourceS", path) : path \in SerdePaths}

\* The texts a caller hands in for a field of type type_id: every value of
\* the type in both layouts, a value of another type, a type that is not
\* registered, and a text that is not RON.
SerdeTexts(type_id) ==
    {Text(v.ty, Encode(v), pretty) : v \in ValuesOfType(type_id), pretty \in BOOLEAN}
        \cup { Text("EnumS", Encode(EnumVal("EnumS", "A", <<>>)), FALSE),
               Text("UnregisteredComponent", [tok |-> "tuple", n |-> 0], FALSE),
               Malformed }

\* Targets that do not resolve in the World of this specification: the
\* entity was never spawned, the type is not registered, the component or
\* the resource is not there, the path names no field.
SerdeBadTargets ==
    { new_component("E2", "ComponentS", <<"e">>),
      new_component("E1", "UnregisteredComponent", <<"value">>),
      new_component("E1", "ComponentA", <<"value1">>),
      new_component("E1", "ComponentS", <<"nope">>),
      new_resource("NonReflectResource", <<"value1">>),
      new_resource("ResourceA", <<"value1">>),
      new_resource("ResourceS", <<"nope">>) }

SerdeInit ==
    /\ \/ \E target \in SerdeTargets :
              \E v \in ValuesOfType(SerdeDefaults[Head(target.field_path)].ty) :
                  /\ Len(target.field_path) = 2 => Len(v.fields) > 0
                  /\ world = SerdeWorld([SerdeDefaults EXCEPT ![Head(target.field_path)] = v])
                  /\ last = [op |-> "serde_start", target |-> target, text |-> Malformed,
                             result |-> Ok(NoChanges)]
       \/ \E target \in SerdeBadTargets :
              /\ world = SerdeWorld(SerdeDefaults)
              /\ last = [op |-> "serde_start", target |-> target, text |-> Malformed,
                         result |-> Ok(NoChanges)]
    /\ before = world

\* The type of the field the run targets (the field resolves when asked).
SerdeFieldType ==
    LET root == IF last.target.kind = "Component"
                THEN ComponentOf(world, "E1", "ComponentS")
                ELSE ResourceOf(world, "ResourceS")
        field == reflect_path(root, last.target.field_path)
    IN  IF field.some THEN field.val.ty ELSE "u32"

\* target.read_value_serialized(world)
ReadValueSerialized ==
    /\ world' = world
    /\ before' = world
    /\ last' = [last EXCEPT !.op = "read_value_serialized",
                            !.text = Malformed,
                            !.result = read_value_serialized(last.target, world)]

\* target.partial_eq_serialized(world, text)
PartialEqSerialized(text) ==
    /\ world' = world
    /\ before' = world
    /\ last' = [last EXCEPT !.op = "partial_eq_serialized",
                            !.text = text,
                            !.result = partial_eq_serialized(last.target, world, text)]

\* target.set_value_serialized(world, text)
SetValueSerialized(text) ==
    LET r == set_value_serialized(last.target, world, text)
    IN  /\ world' = r.world
        /\ before' = world
        /\ last' = [last EXCEPT !.op = "set_value_serialized",
                                !.text = text,
                                !.result = r.result]

\* target.set_value(world, value), the typed set next to the serialized one
SerdeSetValue(value) ==
    LET r == set_value(last.target, world, value)
    IN  /\ world' = r.world
        /\ before' = world
        /\ last' = [last EXCEPT !.op = "set_value", !.text = Malformed,
                                !.result = r.result]

SerdeNext ==
    \/ ReadValueSerialized
    \/ \E text \in SerdeTexts(SerdeFieldType) : PartialEqSerialized(text)
    \/ \E text \in SerdeTexts(SerdeFieldType) : SetValueSerialized(text)
    \/ \E value \in ValuesOfType(SerdeFieldType) : SerdeSetValue(value)

SpecSerde == SerdeInit /\ [][SerdeNext]_vars

----------------------------------------------------------------------------
(* reflect_trait.rs                                                        *)

\* The component types of the trait example, and one more shape:
\* struct DarkButton { selected: bool }    #[reflect(Component, Interactable)]
\* struct LightButton { selected: bool }   #[reflect(Component, Interactable)]
\* struct InteractionColors { .. }         #[reflect(Component)]
\* struct BareButton { selected: bool }    #[reflect(Interactable)]
ButtonTypes == {"DarkButton", "LightButton", "InteractionColors", "BareButton"}

\* Types registered with the type data of the trait (ReflectInteractable).
ReflectInteractableData == {"DarkButton", "LightButton", "BareButton"}

\* A function of this file returns the world, its result, and the component
\* types the caller's callback was invoked on, in order.
TraitRet(w, result, calls) == [world |-> w, result |-> result, calls |-> calls]

\* A scan that keeps every attached type registered with the trait's type
\* data, with or without ReflectComponent.
TraitComponents_any_exposing(w, entity) ==
    LET Keeps(type_id) == /\ type_id \in w.registry
                          /\ type_id \in ReflectInteractableData
    IN  SelectSeq(w.archetype[entity], Keeps)

\* entity_ref.archetype().components() through the three filter_maps: the
\* attached types, in the archetype's order, that are registered with the
\* trait's type data and with ReflectComponent.
TraitComponents(w, entity) ==
    LET Keeps(type_id) == /\ type_id \in w.registry
                          /\ type_id \in ReflectInteractableData
                          /\ type_id \in ReflectComponentData
    IN  SelectSeq(w.archetype[entity], Keeps)

\* Interactable::handle_click
handle_click(reflect_value) ==
    [reflect_value EXCEPT !.selected = ~reflect_value.selected]

\* A handler of the find functions: Some(what it computes from the value)
\* on the types in `yields`, None on the others.
TraitHandler(yields, reflect_value) ==
    IF reflect_value.ty \in yields THEN Some(reflect_value) ELSE None

\* The closures reflect_trait_find_one, reflect_trait_once and
\* reflect_trait_mut_expect_once hand to the iteration, with the variable
\* each captures (return_value, was_called): the captured variable after the
\* call, the flag returned, and the value as the callback leaves it.
CallTraitCallback(callback, captured, reflect_value) ==
    CASE callback.fn = "find_one" ->
             LET return_value == TraitHandler(callback.yields, reflect_value)
             IN  [captured |-> return_value, must_continue |-> ~return_value.some,
                  value |-> reflect_value]
      [] callback.fn = "once" ->
             [captured |-> TRUE, must_continue |-> FALSE, value |-> reflect_value]
      [] callback.fn = "handle_click" ->
             [captured |-> TRUE, must_continue |-> FALSE,
              value |-> handle_click(reflect_value)]
      \* a callback of a caller of reflect_trait_iter / reflect_trait_iter_mut:
      \* it answers true on the types in `continues`, and clicks when the
      \* access it is given is mutable
      [] callback.fn = "iterate" ->
             [captured |-> captured,
              must_continue |-> reflect_value.ty \in callback.continues,
              value |-> handle_click(reflect_value)]

RECURSIVE TraitLoop(_, _, _, _, _, _, _)
\* A loop that goes on after the callback returns false.
TraitLoop_no_stop(w, entity, types, i, callback, captured, mutable) ==
    IF i > Len(types) THEN [world |-> w, captured |-> captured, calls |-> <<>>]
    ELSE LET c == CallTraitCallback(callback, captured, w.buttons[entity][types[i]])
             rest == TraitLoop(w, entity, types, i + 1, callback, c.captured, mutable)
         IN  [rest EXCEPT !.calls = <<types[i]>> \o @]

\* The .find(..) of reflect_trait_iter and the for loop of
\* reflect_trait_iter_mut: the callback runs on one retained type after the
\* other until it returns false.  The mutable loop hands out the value
\* through Mut::as_reflect_mut, which marks the component changed.
TraitLoop(w, entity, types, i, callback, captured, mutable) ==
    IF i > Len(types) THEN [world |-> w, captured |-> captured, calls |-> <<>>]
    ELSE LET c == CallTraitCallback(callback, captured, w.buttons[entity][types[i]])
             w1 == IF mutable
                   THEN [w EXCEPT !.buttons[entity][types[i]] = c.value,
                                  !.changed = @ \cup {types[i]}]
                   ELSE w
         IN  IF ~c.must_continue
             THEN [world |-> w1, captured |-> c.captured, calls |-> <<types[i]>>]
             ELSE LET rest == TraitLoop(w1, entity, types, i + 1, callback,
                                        c.captured, mutable)
                  IN  [rest EXCEPT !.calls = <<types[i]>> \o @]

RECURSIVE find_map(_, _, _, _, _)
\* A find_map that goes on to the last type and keeps the last Some.
find_map_last(w, entity, types, i, yields) ==
    IF i > Len(types) THEN [found |-> None, calls |-> <<>>]
    ELSE LET r == TraitHandler(yields, w.buttons[entity][types[i]])
             rest == find_map(w, entity, types, i + 1, yields)
         IN  [found |-> IF rest.found.some THEN rest.found ELSE r,
              calls |-> <<types[i]>> \o rest.calls]

\* The find_map(..) of reflect_find_trait_on_entity.
find_map(w, entity, types, i, yields) ==
    IF i > Len(types) THEN [found |-> None, calls |-> <<>>]
    ELSE LET r == TraitHandler(yields, w.buttons[entity][types[i]])
         IN  IF r.some THEN [found |-> r, calls |-> <<types[i]>>]
             ELSE LET rest == find_map(w, entity, types, i + 1, yields)
                  IN  [rest EXCEPT !.calls = <<types[i]>> \o @]

reflect_find_trait_on_entity(w, entity, yields) ==
    IF entity \notin w.alive THEN TraitRet(w, Err("EntityNotFound"), <<>>)
    ELSE LET result == find_map(w, entity, TraitComponents(w, entity), 1, yields)
         IN  TraitRet(w, Ok(result.found), result.calls)

\* The result is Ok(()) whatever the callback did.
reflect_trait_iter(w, entity, callback, captured) ==
    IF entity \notin w.alive
    THEN [world |-> w, result |-> Err("EntityNotFound"), captured |-> captured,
          calls |-> <<>>]
    ELSE LET loop == TraitLoop(w, entity, TraitComponents(w, entity), 1, callback,
                               captured, FALSE)
         IN  [world |-> w, result |-> Ok("()"), captured |-> loop.captured,
              calls |-> loop.calls]

\* A mutable iteration that leaves the loop when the callback returns true.
reflect_trait_iter_mut_break_on_true(w, entity, callback, captured) ==
    LET inverted == IF callback.fn = "iterate"
                    THEN [callback EXCEPT !.continues = ReflectInteractableData \ @]
                    ELSE callback
    IN  IF entity \notin w.alive
        THEN [world |-> w, result |-> Err("EntityNotFound"), captured |-> captured,
              calls |-> <<>>]
        ELSE LET loop == TraitLoop(w, entity, TraitComponents(w, entity), 1, inverted,
                                   captured, TRUE)
             IN  [world |-> loop.world, result |-> Ok("()"), captured |-> loop.captured,
                  calls |-> loop.calls]

\* get_entity_mut inside the loop cannot fail: the entity was found above
\* and the callback has no access to the World.
reflect_trait_iter_mut(w, entity, callback, captured) ==
    IF entity \notin w.alive
    THEN [world |-> w, result |-> Err("EntityNotFound"), captured |-> captured,
          calls |-> <<>>]
    ELSE LET loop == TraitLoop(w, entity, TraitComponents(w, entity), 1, callback,
                               captured, TRUE)
         IN  [world |-> loop.world, result |-> Ok("()"), captured |-> loop.captured,
              calls |-> loop.calls]

reflect_trait_find_one(w, entity, yields) ==
    LET it == reflect_trait_iter(w, entity, [fn |-> "find_one", yields |-> yields], None)
    IN  TraitRet(it.world, IF IsOk(it.result) THEN Ok(it.captured) ELSE it.result,
                 it.calls)

\* match (was_called, result)
ExpectOnceResult(was_called, result) ==
    IF was_called /\ IsOk(result) THEN Ok("()")
    ELSE IF ~was_called /\ IsOk(result) THEN Err("EntityDoesNotHaveComponent")
    ELSE result

\* An expect-once that fails when more than one attached type is retained.
reflect_trait_mut_expect_once_strict(w, entity) ==
    LET it == reflect_trait_iter_mut(w, entity, [fn |-> "handle_click"], FALSE)
    IN  IF entity \in w.alive /\ Len(TraitComponents(w, entity)) > 1
        THEN TraitRet(w, Err("EntityDoesNotHaveComponent"), <<>>)
        ELSE TraitRet(it.world, ExpectOnceResult(it.captured, it.result), it.calls)

reflect_trait_once(w, entity) ==
    LET it == reflect_trait_iter(w, entity, [fn |-> "once"], FALSE)
    IN  TraitRet(it.world, ExpectOnceResult(it.captured, it.result), it.calls)

reflect_trait_mut_expect_once(w, entity) ==
    LET it == reflect_trait_iter_mut(w, entity, [fn |-> "handle_click"], FALSE)
    IN  TraitRet(it.world, ExpectOnceResult(it.captured, it.result), it.calls)

----------------------------------------------------------------------------
(* Specification SpecTrait: the trait functions on an entity whose         *)
(* components are inserted and removed between the calls.  The archetype   *)
(* lists the components in an order the store chooses: an inserted type    *)
(* takes any position.                                                     *)

TraitInit ==
    /\ world = [ registry |-> ButtonTypes,
                 alive |-> {"E1"},
                 archetype |-> [e \in Entities |-> <<>>],
                 buttons |-> [e \in Entities |-> [t \in ButtonTypes |-> Absent]],
                 changed |-> {} ]
    /\ before = world
    /\ last = [op |-> "trait_start", entity |-> "E1", yields |-> {},
               result |-> Ok("()"), calls |-> <<>>]

\* What the history keeps of a call; `yields` is what defines the callback:
\* the types it answers Some on (find functions) or true on (iterations).
TraitHistory(op, entity, yields, r) ==
    [op |-> op, entity |-> entity, yields |-> yields, result |-> r.result,
     calls |-> r.calls]

\* entity_mut.insert(T::default())
TraitInsert(type_id, position) ==
    LET types == world.archetype["E1"]
    IN  /\ \A i \in DOMAIN types : types[i] # type_id
        /\ position \in 1..(Len(types) + 1)
        /\ world' = [world EXCEPT
               !.archetype["E1"] = SubSeq(types, 1, position - 1) \o <<type_id>>
                                       \o SubSeq(types, position, Len(types)),
               !.buttons["E1"][type_id] = [ty |-> type_id, selected |-> FALSE]]
        /\ before' = world
        /\ last' = TraitHistory("insert", "E1", {}, TraitRet(world', Ok("()"), <<>>))

\* entity_mut.remove::<T>()
TraitRemove(type_id) ==
    LET types == world.archetype["E1"]
        Other(t) == t # type_id
    IN  /\ \E i \in DOMAIN types : types[i] = type_id
        /\ world' = [world EXCEPT
               !.archetype["E1"] = SelectSeq(types, Other),
               !.buttons["E1"][type_id] = Absent,
               !.changed = @ \ {type_id}]
        /\ before' = world
        /\ last' = TraitHistory("remove", "E1", {}, TraitRet(world', Ok("()"), <<>>))

FindTraitOnEntity(entity, yields) ==
    LET r == reflect_find_trait_on_entity(world, entity, yields)
    IN  /\ world' = r.world
        /\ before' = world
        /\ last' = TraitHistory("reflect_find_trait_on_entity", entity, yields, r)

TraitFindOne(entity, yields) ==
    LET r == reflect_trait_find_one(world, entity, yields)
    IN  /\ world' = r.world
        /\ before' = world
        /\ last' = TraitHistory("reflect_trait_find_one", entity, yields, r)

TraitOnce(entity) ==
    LET r == reflect_trait_once(world, entity)
    IN  /\ world' = r.world
        /\ before' = world
        /\ last' = TraitHistory("reflect_trait_once", entity, {}, r)

TraitMutExpectOnce(entity) ==
    LET r == reflect_trait_mut_expect_once(world, entity)
    IN  /\ world' = r.world
        /\ before' = world
        /\ last' = TraitHistory("reflect_trait_mut_expect_once", entity, {}, r)

\* reflect_trait_iter(world, entity, callback), the callback answering true on
\* the types in `continues`
TraitIter(entity, continues) ==
    LET r == reflect_trait_iter(world, entity,
                                [fn |-> "iterate", continues |-> continues], FALSE)
    IN  /\ world' = r.world
        /\ before' = world
        /\ last' = TraitHistory("reflect_trait_iter", entity, continues, r)

\* reflect_trait_iter_mut(world, entity, callback)
TraitIterMut(entity, continues) ==
    LET r == reflect_trait_iter_mut(world, entity,
                                    [fn |-> "iterate", continues |-> continues], FALSE)
    IN  /\ world' = r.world
        /\ before' = world
        /\ last' = TraitHistory("reflect_trait_iter_mut", entity, continues, r)

\* E1 is the entity the components are attached to, E2 one that was never
\* spawned.
TraitNext ==
    \/ \E type_id \in ButtonTypes, position \in 1..Cardinality(ButtonTypes) :
           TraitInsert(type_id, position)
    \/ \E type_id \in ButtonTypes : TraitRemove(type_id)
    \/ \E entity \in {"E1", "E2"}, yields \in SUBSET ReflectInteractableData :
           FindTraitOnEntity(entity, yields)
    \/ \E entity \in {"E1", "E2"}, yields \in SUBSET ReflectInteractableData :
           TraitFindOne(entity, yields)
    \/ \E entity \in {"E1", "E2"}, continues \in SUBSET ReflectInteractableData :
           TraitIter(entity, continues)
    \/ \E entity \in {"E1", "E2"}, continues \in SUBSET ReflectInteractableData :
           TraitIterMut(entity, continues)
    \/ \E entity \in {"E1", "E2"} : TraitOnce(entity)
    \/ \E entity \in {"E1", "E2"} : TraitMutExpectOnce(entity)

SpecTrait == TraitInit /\ [][TraitNext]_vars

----------------------------------------------------------------------------
(* Vocabulary of the properties.                                           *)

\* The component or resource a target addresses in World w, or Absent.
RootOf(w, target) ==
    IF target.kind = "Component"
    THEN IF target.entity \in w.alive
         THEN ComponentOf(w, target.entity, target.type_id)
         ELSE Absent
    ELSE ResourceOf(w, target.type_id)

\* The registration of the target's type carries the reflection data its
\* kind needs (ReflectComponent / ReflectResource).
HasReflectData(target) ==
    IF target.kind = "Component"
    THEN target.type_id \in ReflectComponentData
    ELSE target.type_id \in ReflectResourceData

\* The target resolves in World w: type, instance and path are all there.
Resolves(w, target) ==
    /\ target.type_id \in w.registry
    /\ HasReflectData(target)
    /\ RootOf(w, target) # Absent
    /\ reflect_path(RootOf(w, target), target.field_path).some

\* The sub-value a resolving target addresses.
FieldOf(w, target) == reflect_path(RootOf(w, target), target.field_path).val

\* Where change detection records a write through the target.
LocOf(target) ==
    IF target.kind = "Component"
    THEN ComponentLoc(target.entity, target.type_id)
    ELSE ResourceLoc(target.type_id)

\* Every stored value of w2 is the value w1 holds.
SameValues(w1, w2) ==
    /\ w1.components = w2.components
    /\ w1.resources = w2.resources
    /\ w1.alive = w2.alive
    /\ w1.registry = w2.registry

IsSet == last.op = "set_value"
IsRead == last.op = "read_value"
IsToggle == last.op = "toggle_enum_variant"

----------------------------------------------------------------------------
(* C1.  A guarded set whose new value compares equal to the current        *)
(* sub-value performs no write: the change-detection mark of the           *)
(* component or resource is the same after the call as before it.          *)
(* The code marks it: reflect_path_mut is called on the Mut<dyn Reflect>   *)
(* before the comparison is made.                                          *)
C1_EqualSetLeavesChangeMark ==
    (IsSet /\ last.result = Ok(NoChanges))
        => (LocOf(last.target) \in world.changed
                <=> LocOf(last.target) \in before.changed)

----------------------------------------------------------------------------
----------------------------------------------------------------------------
(* C3.  Guarded write idempotence.                                         *)

\* The call sets the target to the value a read of it returns.
SetsWhatItReads ==
    /\ IsSet
    /\ read_value(last.target, before, last.value.ty) = Ok(last.value)

(* C3 as stated: for every target on which read succeeds,                  *)
(* set(target, read(target)) returns NoChanges and leaves the stored value *)
(* identical, for every field type, reflected equality defined or not.     *)
C3_SetOfReadIsNoChanges ==
    SetsWhatItReads => last.result = Ok(NoChanges) /\ SameValues(before, world)

(* C3 as amended: set(target, read(target)) leaves the stored value        *)
(* identical for every field type; it returns NoChanges when the reflected *)
(* equality of the value with itself is Some(true), and Changed when that  *)
(* equality is undefined (None).                                           *)
C3_SetOfReadKeepsValue ==
    SetsWhatItReads =>
        /\ SameValues(before, world)
        /\ last.result =
              IF reflect_partial_eq(last.value, last.value) = Some(TRUE)
              THEN Ok(NoChanges) ELSE Ok(Changed)

\* A field without reflected equality is set to the value it holds.
C3_Witness ==
    /\ SetsWhatItReads
    /\ last.value.ty = "Opaque"
    /\ last.result = Ok(Changed)

----------------------------------------------------------------------------
(* C4.  The errors of a typed read, for a record that exists or a          *)
(* singleton.                                                              *)

\* The instance-not-found error of the target's kind.
InstanceNotFound(target) ==
    IF target.kind = "Component"
    THEN "EntityDoesNotHaveComponent" ELSE "ResourceDoesNotExist"

\* The read was made on a singleton or on a record that exists.
IsReadOfLiveRecord ==
    IsRead /\ (last.target.kind = "Component" => last.target.entity \in before.alive)

\* The result of a read on a target whose type is registered with its
\* reflection data and whose instance may be absent.
ReadOfInstance(target, T) ==
    IF RootOf(before, target) = Absent
    THEN Err(InstanceNotFound(target))
    ELSE IF ~reflect_path(RootOf(before, target), target.field_path).some
    THEN Err("ReflectPath")
    ELSE IF FieldOf(before, target).ty # T
    THEN Err("InvalidDowncast")
    ELSE Ok(FieldOf(before, target))

(* C4 as stated: type not registered -> TypeRegistrationNotFound; type     *)
(* registered but instance absent -> EntityDoesNotHaveComponent /          *)
(* ResourceDoesNotExist; path segment not present -> ReflectPath; value    *)
(* not of the requested type -> InvalidDowncast; a value otherwise.        *)
C4_ReadErrorOrder ==
    IsReadOfLiveRecord =>
        last.result =
            IF last.target.type_id \notin before.registry
            THEN Err("TypeRegistrationNotFound")
            ELSE ReadOfInstance(last.target, last.T)

(* C4 as amended: between the first and the second cause there is one      *)
(* more: the type is registered but its registration carries no component  *)
(* reflection data (for a record) or no resource reflection data (for a    *)
(* singleton) -> TypeRegistrationInvalidCast.                              *)
C4_ReadErrorOrderWithCast ==
    IsReadOfLiveRecord =>
        last.result =
            IF last.target.type_id \notin before.registry
            THEN Err("TypeRegistrationNotFound")
            ELSE IF ~HasReflectData(last.target)
            THEN Err("TypeRegistrationInvalidCast")
            ELSE ReadOfInstance(last.target, last.T)

\* A read that passes every check but the last.
C4_Witness ==
    /\ IsReadOfLiveRecord
    /\ Resolves(before, last.target)
    /\ last.result = Err("InvalidDowncast")

----------------------------------------------------------------------------
(* C5.  When the whole-value assignment of a set is rejected (the guard    *)
(* did not answer "equal" and the supplied value is not of the sub-value's *)
(* concrete type) set returns SetValueFailed and every stored value is     *)
(* unchanged; when the path does not exist on an instance that does, set   *)
(* returns ReflectPath and every stored value is unchanged.                *)
AssignmentRejected ==
    /\ IsSet /\ Resolves(before, last.target)
    /\ reflect_partial_eq(FieldOf(before, last.target), last.value) # Some(TRUE)
    /\ last.value.ty # FieldOf(before, last.target).ty

PathMissing ==
    /\ IsSet
    /\ last.target.type_id \in before.registry
    /\ HasReflectData(last.target)
    /\ RootOf(before, last.target) # Absent
    /\ ~reflect_path(RootOf(before, last.target), last.target.field_path).some

C5_SetFailuresKeepValue ==
    /\ AssignmentRejected
          => last.result = Err("SetValueFailed") /\ SameValues(before, world)
    /\ PathMissing
          => last.result = Err("ReflectPath") /\ SameValues(before, world)
    /\ (IsSet /\ last.result = Err("SetValueFailed")) => AssignmentRejected

\* An integer handed to an enum field.
C5_Witness ==
    /\ AssignmentRejected
    /\ last.value.ty = "u32"
    /\ last.result = Err("SetValueFailed")

----------------------------------------------------------------------------
(* Properties of get_next_index_in_direction (SpecIndex).                  *)

Applied == last.op = "get_next_index_in_direction"

(* C6.  get_next_index_in_direction(i, n, direction, wrap) is the          *)
(* specified algorithm for every i, every n >= 1, both directions and both *)
(* wrap values: none if n = 1 or i > n-1; Forward gives i+1 if i < n-1,    *)
(* else 0 if wrap, else none; Backward gives i-1 if i > 0, else n-1 if     *)
(* wrap, else none.                                                        *)
C6_NextIndexIsSpecified ==
    Applied =>
        LET i == last.index
            n == last.length
        IN  /\ (n = 1 \/ i > n - 1) => last.result = None
            /\ (n # 1 /\ i <= n - 1 /\ last.direction = Forward) =>
                  /\ i < n - 1 => last.result = Some(i + 1)
                  /\ (i = n - 1 /\ last.wrap) => last.result = Some(0)
                  /\ (i = n - 1 /\ ~last.wrap) => last.result = None
            /\ (n # 1 /\ i <= n - 1 /\ last.direction = Backward) =>
                  /\ i > 0 => last.result = Some(i - 1)
                  /\ (i = 0 /\ last.wrap) => last.result = Some(n - 1)
                  /\ (i = 0 /\ ~last.wrap) => last.result = None

\* Forward from the last index with wrap: index 0.
C6_Witness ==
    /\ Applied /\ last.length > 2 /\ last.index = last.length - 1
    /\ last.direction = Forward /\ last.wrap
    /\ last.result = Some(0)

(* C7.  Whenever a new index is produced it is different from the current  *)
(* index and lies in [0, n).                                               *)
C7_NewIndexDiffersAndInRange ==
    (Applied /\ last.result.some) =>
        /\ last.result.val # last.index
        /\ last.result.val \in 0..(last.length - 1)

\* Backward from index 0 with wrap: the last index.
C7_Witness ==
    /\ Applied /\ last.index = 0 /\ last.direction = Backward /\ last.wrap
    /\ last.result.some /\ last.result.val = last.length - 1

(* C10.  For every direction and wrap flag the result is "no new index",   *)
(* and not an error, when there is exactly one variant or when the current *)
(* index is outside [0, n).                                                *)
C10_GuardsGiveNoIndex ==
    (Applied /\ (last.length = 1 \/ last.index \notin 0..(last.length - 1)))
        => last.result = None

\* An index past the end of a list of several variants.
C10_Witness ==
    /\ Applied /\ last.length > 1 /\ last.index > last.length
    /\ last.wrap /\ last.result = None

----------------------------------------------------------------------------
(* Properties of runs of toggles (SpecCycle).                              *)

\* The variant count of the enum the run toggles, and the index it started at.
RunLength == Len(EnumInfo[last.start.ty])
RunStart == variant_index(last.start)
\* The variant index the field holds now.
RunIndex == variant_index(FieldOf(world, last.target))

Min(a, b) == IF a < b THEN a ELSE b

\* Every payload field of every variant of the enum has a default value
\* registered in the World's registry.
RunHasDefaults ==
    \A i \in DOMAIN EnumInfo[last.start.ty] :
        \A j \in DOMAIN EnumInfo[last.start.ty][i].fields :
            LET type_id == EnumInfo[last.start.ty][i].fields[j]
            IN  type_id \in world.registry /\ type_id \in ReflectDefaultData

\* A run of Forward toggles without wrap that started at variant 0.
IsForwardRunFromZero ==
    /\ last.op \in {"cycle_start", "cycle_toggle"}
    /\ last.direction = Forward /\ ~last.wrap /\ RunStart = 0

\* After k toggles: min(k, N-1) of them reported Changed, the field is at
\* variant min(k, N-1), and the k-th reported Changed exactly when k <= N-1.
ForwardRunShape ==
    /\ last.changes = Min(last.steps, RunLength - 1)
    /\ RunIndex = Min(last.steps, RunLength - 1)
    /\ last.steps > 0 =>
          last.result = IF last.steps <= RunLength - 1 THEN Ok(Changed)
                        ELSE Ok(NoChanges)

(* C8 as stated: from variant 0 of an N-variant enum field, repeated       *)
(* Forward toggles with wrap=false give exactly N-1 Changed results,       *)
(* visiting variants 1..N-1 in order, and NoChanges on every later toggle, *)
(* the field staying at variant N-1.                                       *)
C8_ForwardRunTerminates ==
    IsForwardRunFromZero => ForwardRunShape

(* C8 as amended: the same, for an enum every payload field of which has a *)
(* registered default value (without one the toggle that should move to    *)
(* that variant fails with NoDefaultValue instead).                        *)
C8_ForwardRunTerminatesWithDefaults ==
    (IsForwardRunFromZero /\ RunHasDefaults) => ForwardRunShape

\* The three-variant enum, past its last variant.
C8_Witness ==
    /\ IsForwardRunFromZero /\ RunHasDefaults
    /\ RunLength = 3 /\ last.steps = 4 /\ last.changes = 2
    /\ last.result = Ok(NoChanges)

\* A run of Forward toggles with wrap.
IsForwardWrapRun ==
    /\ last.op \in {"cycle_start", "cycle_toggle"}
    /\ last.direction = Forward /\ last.wrap

\* With N >= 2 every toggle so far reported Changed and after exactly N of
\* them the field is back at the starting variant; with N = 1 every toggle
\* reported NoChanges.
WrapRunShape ==
    /\ RunLength >= 2 =>
          /\ last.changes = last.steps
          /\ last.steps = RunLength => RunIndex = RunStart
          /\ (last.steps > 0 /\ last.steps < RunLength) => RunIndex # RunStart
    /\ RunLength = 1 =>
          /\ last.changes = 0
          /\ last.steps > 0 => last.result = Ok(NoChanges)

(* C9 as stated: for an N-variant enum field with N >= 2, N Forward        *)
(* toggles with wrap=true from any starting variant return the field to    *)
(* the starting variant and each of them reports Changed; for N = 1 every  *)
(* toggle reports NoChanges.                                               *)
C9_WrapRunIsCyclic ==
    IsForwardWrapRun => WrapRunShape

(* C9 as amended: the same, for an enum every payload field of which has a *)
(* registered default value.                                               *)
C9_WrapRunIsCyclicWithDefaults ==
    (IsForwardWrapRun /\ RunHasDefaults) => WrapRunShape

\* The three-variant enum started in its middle variant, after three toggles.
C9_Witness ==
    /\ IsForwardWrapRun /\ RunHasDefaults
    /\ RunLength = 3 /\ RunStart = 1 /\ last.steps = 3 /\ last.changes = 3
    /\ RunIndex = 1

----------------------------------------------------------------------------
(* Properties of one toggle of a run (SpecCycle).                          *)

IsCycleToggle == last.op = "cycle_toggle"

\* The enum value the toggle found, and the index the cycler moves to from
\* it (None when it stays).
ToggledFrom == FieldOf(before, last.target)
ToggledTo ==
    get_next_index_in_direction(variant_index(ToggledFrom),
                                Len(EnumInfo[ToggledFrom.ty]),
                                last.direction, last.wrap)
\* The description of the variant the cycler moves to.
ToggledVariant == EnumInfo[ToggledFrom.ty][ToggledTo.val + 1]

\* The type has a default value registered in World w.
HasDefault(w, type_id) == type_id \in w.registry /\ type_id \in ReflectDefaultData

(* C11.  When an enum toggle reports Changed, the field afterwards holds   *)
(* the variant at the new index with every payload field set to the        *)
(* default value of that field's type, whatever payload the field or that  *)
(* variant held before.                                                    *)
C11_ToggleGivesDefaultPayload ==
    (IsCycleToggle /\ last.result = Ok(Changed)) =>
        /\ ToggledTo.some
        /\ LET now == FieldOf(world, last.target)
           IN  /\ now.ty = ToggledFrom.ty
               /\ now.variant = ToggledVariant.name
               /\ Len(now.fields) = Len(ToggledVariant.fields)
               /\ \A j \in DOMAIN ToggledVariant.fields :
                      now.fields[j] = DefaultValue(ToggledVariant.fields[j])

\* B(MaxU32) -> A -> B(0): the second toggle of a wrapping run.
C11_Witness ==
    /\ IsCycleToggle /\ last.result = Ok(Changed)
    /\ last.start = EnumVal("EnumA", "B", <<U32(MaxU32)>>)
    /\ last.steps = 2
    /\ ToggledFrom = EnumVal("EnumA", "A", <<>>)
    /\ FieldOf(world, last.target) = EnumVal("EnumA", "B", <<U32(0)>>)

\* The variant the cycler moves to has a payload field without a default.
MovesToVariantWithoutDefault ==
    /\ IsCycleToggle
    /\ ToggledTo.some
    /\ \E j \in DOMAIN ToggledVariant.fields :
           ~HasDefault(before, ToggledVariant.fields[j])

(* C12.  If any payload field of the variant the cycler moves to has no    *)
(* default value registered, the toggle fails with NoDefaultValue, nothing *)
(* is assigned and every stored value is as it was; and the toggle fails   *)
(* so in that case only.                                                   *)
C12_NoDefaultValueKeepsEnum ==
    /\ MovesToVariantWithoutDefault
          => last.result = Err("NoDefaultValue") /\ SameValues(before, world)
    /\ (IsCycleToggle /\ last.result = Err("NoDefaultValue"))
          => MovesToVariantWithoutDefault

\* P -> Q(u32, Opaque) with u32 registered and Opaque not.
C12_Witness ==
    /\ MovesToVariantWithoutDefault
    /\ ToggledVariant.name = "Q"
    /\ HasDefault(before, "u32") /\ ~HasDefault(before, "Opaque")
    /\ last.result = Err("NoDefaultValue")
    /\ FieldOf(world, last.target) = EnumVal("EnumT", "P", <<>>)

----------------------------------------------------------------------------
(* C13.  A ReflectTarget is validated at use only and resolved again by    *)
(* every operation: while the entity, the component or the resource it     *)
(* names is absent a read or a set fails with the not-found error of what  *)
(* is missing (EntityNotFound, EntityDoesNotHaveComponent,                 *)
(* ResourceDoesNotExist); while it is there the same target reads the      *)
(* value stored now and sets it; after it is removed the operations fail   *)
(* with that error again and no read returns a value.                      *)

\* The not-found error of what the target lacks in World w.
MissingInstance(w, target) ==
    IF target.kind = "Component" /\ target.entity \notin w.alive
    THEN "EntityNotFound"
    ELSE InstanceNotFound(target)

C13_TargetIsResolvedAtUse ==
    (last.op \in {"read_value", "set_value"} /\ last.target \in BindTargets) =>
        IF RootOf(before, last.target) = Absent
        THEN /\ last.result = Err(MissingInstance(before, last.target))
             /\ SameValues(before, world)
        ELSE IF last.op = "read_value"
        THEN last.result = Ok(FieldOf(before, last.target))
        ELSE /\ IsOk(last.result)
             /\ FieldOf(world, last.target) = last.value

\* Failed while absent, succeeded while present, and fails again now that
\* the instance has been removed.
C13_Witness ==
    /\ last.op = "read_value" /\ last.target \in BindTargets
    /\ last.failed /\ last.succeeded
    /\ RootOf(before, last.target) = Absent
    /\ IsErr(last.result)

----------------------------------------------------------------------------
(* C14.  Paths into the payload of an enum.                                *)

\* The call addressed a payload field ("value1.0") of an enum field of a
\* component or resource that exists.
IsPayloadCall ==
    /\ IsRead \/ IsSet \/ IsToggle
    /\ Len(last.target.field_path) = 2
    /\ last.target.type_id \in before.registry
    /\ HasReflectData(last.target)
    /\ RootOf(before, last.target) # Absent
    /\ Head(last.target.field_path) \in DOMAIN RootOf(before, last.target).fields
    /\ IsEnum(RootOf(before, last.target).fields[Head(last.target.field_path)])

\* The enum value that owns the payload, the description of its active
\* variant, and the position the path names in it.
PayloadOwner == RootOf(before, last.target).fields[Head(last.target.field_path)]
ActiveVariant == EnumInfo[PayloadOwner.ty][variant_index(PayloadOwner) + 1]
PayloadIndex == TupleIndex(last.target.field_path[2])

(* A read, a set or a toggle through a path into an enum's payload fails   *)
(* with ReflectPath, and leaves every stored value as it was, whenever the *)
(* active variant has no field at that position, also after a set or a     *)
(* toggle has moved the enum away from the variant that had it; a read     *)
(* returns a payload only of the active variant, and then the one stored.  *)
C14_PayloadPathNeedsActiveVariant ==
    IsPayloadCall =>
        IF PayloadIndex \notin DOMAIN ActiveVariant.fields
        THEN last.result = Err("ReflectPath") /\ SameValues(before, world)
        ELSE (IsRead /\ last.T = ActiveVariant.fields[PayloadIndex])
                 => last.result = Ok(PayloadOwner.fields[PayloadIndex])

\* The component starts as ComponentA { value1: B(..), .. }: value1 is A only
\* after a set or a toggle has moved it there.
C14_Witness ==
    /\ IsPayloadCall /\ IsRead /\ last.T = "u32"
    /\ last.target.kind = "Component"
    /\ PayloadOwner = EnumVal("EnumA", "A", <<>>)
    /\ last.result = Err("ReflectPath")

----------------------------------------------------------------------------
(* Properties of the serialized operations (SpecSerde).                    *)

\* The value the target addressed when the call was made.
SerdeField == FieldOf(before, last.target)

\* Reflected equality is undefined for the value's type: a value type that
\* does not reflect PartialEq.
EqualityUndefined(v) == IsValue(v) /\ v.ty \notin PartialEqTypes

\* The value is not equal to itself under its own PartialEq (an f32 NaN).
NotReflexive(v) == v.ty = "f32" /\ v.nan

\* The value does not compare equal to what its text deserializes to: it
\* holds a NaN, or its type reflects its own PartialEq and not Deserialize
\* (the text comes back as a dynamic value, which that PartialEq rejects),
\* or it is an enum with a payload field for which one of these holds or
\* whose equality is undefined.
RoundTripUnequal(v) ==
    \/ NotReflexive(v)
    \/ v.ty \in ReflectPartialEqData /\ v.ty \notin ReflectDeserializeData
    \/ /\ IsEnum(v) /\ v.ty \notin ReflectPartialEqData
       /\ \E i \in DOMAIN v.fields :
              EqualityUndefined(v.fields[i]) \/ NotReflexive(v.fields[i])

\* The call compares the target with the text read_value_serialized gives
\* for it.
ComparesWithOwnText ==
    /\ last.op = "partial_eq_serialized"
    /\ Resolves(before, last.target)
    /\ IsOk(read_value_serialized(last.target, before))
    /\ last.text = read_value_serialized(last.target, before).val

SetsFromTextOf(v) ==
    /\ last.op = "set_value_serialized"
    /\ Resolves(before, last.target)
    /\ v.ty = SerdeField.ty
    /\ IsOk(serialize_reflect_value(before.registry, v))
    /\ last.text.type_path = serialize_reflect_value(before.registry, v).val.type_path
    /\ last.text.body = serialize_reflect_value(before.registry, v).val.body

\* The call did what the typed set of v does on the same World.
SameAsTypedSet(v) ==
    /\ last.result = set_value(last.target, before, v).result
    /\ SameValues(world, set_value(last.target, before, v).world)

ComparesWithText ==
    /\ last.op = "partial_eq_serialized"
    /\ Resolves(before, last.target)
    /\ IsOk(deserialize_reflect_value(before, last.text))

(* C17.  partial_eq_serialized returns Ok(true) or Ok(false) exactly when  *)
(* the equality of the field's type is defined, and the PartialEq error,   *)
(* never a boolean, when it is not.                                        *)
C17_PartialEqSerializedResult ==
    ComparesWithText =>
        IF EqualityUndefined(SerdeField)
        THEN last.result = Err("PartialEq")
        ELSE last.result \in {Ok(TRUE), Ok(FALSE)}

\* A field without reflected equality compared with its own text.
C17_Witness ==
    /\ ComparesWithText
    /\ SerdeField = OpaqueVal(0)
    /\ last.text = Text("Opaque", Encode(OpaqueVal(0)), FALSE)
    /\ last.result = Err("PartialEq")

----------------------------------------------------------------------------
(* Properties of the trait functions (SpecTrait).                          *)

IsFind ==
    /\ last.op \in {"reflect_find_trait_on_entity", "reflect_trait_find_one"}
    /\ last.entity \in before.alive

IsExpectOnce ==
    /\ last.op \in {"reflect_trait_once", "reflect_trait_mut_expect_once"}
    /\ last.entity \in before.alive

\* The types attached to the record when the call was made, in attachment
\* order.
Attached == before.archetype[last.entity]

ExposesTrait(type_id) == type_id \in ReflectInteractableData

\* The attached types that expose the trait.
Exposing == SelectSeq(Attached, ExposesTrait)

ExposesTraitAndComponent(type_id) ==
    type_id \in ReflectInteractableData \cap ReflectComponentData

\* The attached types that expose the trait and reflect Component.
Matches == SelectSeq(Attached, ExposesTraitAndComponent)

\* The positions in Matches of the types on which the callback of the call
\* yields Some.
Yielding == {i \in DOMAIN Matches : Matches[i] \in last.yields}

FirstYielding == CHOOSE i \in Yielding : \A j \in Yielding : i <= j

\* The value of an attached component when the call was made.
ButtonBefore(type_id) == before.buttons[last.entity][type_id]

(* C18.  The find functions invoke the callback on the trait-exposing      *)
(* types in attachment order, return the result of the first invocation    *)
(* that yields Some and invoke the callback on no later type; when no      *)
(* invocation yields Some, or no type matches, they return Ok(None).       *)
C18_FindReturnsFirstSome ==
    IsFind =>
        /\ world = before
        /\ IF Yielding = {}
           THEN last.result = Ok(None) /\ last.calls = Matches
           ELSE /\ last.result = Ok(Some(ButtonBefore(Matches[FirstYielding])))
                /\ last.calls = SubSeq(Matches, 1, FirstYielding)

\* The callback yields None on the first match and Some on the second; a
\* third match is attached after them.
C18_Witness ==
    /\ IsFind
    /\ last.op = "reflect_trait_find_one"
    /\ Attached = <<"LightButton", "InteractionColors", "DarkButton">>
    /\ last.yields = {"DarkButton"}
    /\ last.calls = <<"LightButton", "DarkButton">>
    /\ last.result = Ok(Some(ButtonBefore("DarkButton")))

\* The call left the components it did not invoke the callback on as they
\* were.
OthersUntouched ==
    \A type_id \in ButtonTypes :
        (\A i \in DOMAIN last.calls : last.calls[i] # type_id)
            => world.buttons[last.entity][type_id] = ButtonBefore(type_id)

(* C19 as stated: on a record with zero trait-exposing types the           *)
(* expect-once functions return EntityDoesNotHaveComponent without         *)
(* invoking the callback; on a record with at least one they invoke the    *)
(* callback exactly once, on the first in attachment order, and return Ok. *)
C19_ExpectOnceCallsFirstExposing ==
    IsExpectOnce =>
        IF Len(Exposing) = 0
        THEN last.result = Err("EntityDoesNotHaveComponent") /\ last.calls = <<>>
        ELSE last.result = Ok("()") /\ last.calls = <<Exposing[1]>>

(* C19 as amended: the types that count are those that expose the trait    *)
(* and reflect Component.  With none of them attached the functions return *)
(* EntityDoesNotHaveComponent without invoking the callback; with at least *)
(* one they invoke the callback exactly once, on the first of them in      *)
(* attachment order, and return Ok; no other component is touched.         *)
C19_ExpectOnceCallsFirstMatch ==
    IsExpectOnce =>
        /\ IF Len(Matches) = 0
           THEN last.result = Err("EntityDoesNotHaveComponent") /\ last.calls = <<>>
           ELSE last.result = Ok("()") /\ last.calls = <<Matches[1]>>
        /\ Len(last.calls) <= 1
        /\ OthersUntouched

\* A type that exposes the trait without reflecting Component comes first
\* and is passed over; the click lands on the first match.
C19_Witness ==
    /\ IsExpectOnce
    /\ last.op = "reflect_trait_mut_expect_once"
    /\ Attached = <<"BareButton", "DarkButton", "LightButton">>
    /\ last.result = Ok("()")
    /\ last.calls = <<"DarkButton">>
    /\ world.buttons[last.entity]["DarkButton"] = handle_click(ButtonBefore("DarkButton"))

(* C20 as stated: the expect-once functions report success only when       *)
(* exactly one attached type matches, and do not report success when two   *)
(* or more match.                                                          *)
C20_ExpectOnceNeedsExactlyOne ==
    IsExpectOnce => (last.result = Ok("()") => Len(Matches) = 1)

(* C20 as amended: the expect-once functions report success exactly when   *)
(* at least one attached type matches.  With two or more matches they      *)
(* report success too: the first match wins, and every later match is left *)
(* as it was.                                                              *)
C20_ExpectOnceFirstMatchWins ==
    IsExpectOnce =>
        /\ last.result = Ok("()") <=> Len(Matches) >= 1
        /\ \A i \in DOMAIN Matches :
               i > 1 => world.buttons[last.entity][Matches[i]] = ButtonBefore(Matches[i])

\* Both trait components are attached and the call reports success.
C20_Witness ==
    /\ IsExpectOnce
    /\ last.op = "reflect_trait_mut_expect_once"
    /\ Matches = <<"LightButton", "DarkButton">>
    /\ last.result = Ok("()")
    /\ world.buttons[last.entity]["DarkButton"] = ButtonBefore("DarkButton")

----------------------------------------------------------------------------
(* Error order of the serialized operations (SpecSerde).                   *)

\* The text of the call does not deserialize: it is not RON, or it names a
\* type the registry does not hold.
TextFailsToDeserialize ==
    last.text = Malformed \/ last.text.type_path \notin before.registry

(* C25.  set_serialized and partial_eq_serialized deserialize the text     *)
(* before they resolve the target: given a text that fails to deserialize  *)
(* they return the Deserialize error whether or not the target resolves,   *)
(* and no stored value is changed.                                         *)
C25_DeserializeComesFirst ==
    (last.op \in {"set_value_serialized", "partial_eq_serialized"}
        /\ TextFailsToDeserialize)
        => last.result = Err("Deserialize") /\ world = before

\* A text that is not RON compared with a field of an entity that was never
\* spawned.
C25_Witness ==
    /\ last.op = "partial_eq_serialized"
    /\ last.target = new_component("E2", "ComponentS", <<"e">>)
    /\ last.text = Malformed
    /\ last.result = Err("Deserialize")

----------------------------------------------------------------------------
(* Layout of the text read_value_serialized returns (SpecSerde).           *)

\* The targets of the other kind (resource for a component target and the
\* other way round) whose field holds the value the target of the call
\* holds.
SameValueElsewhere ==
    { other \in SerdeTargets :
          /\ other.kind # last.target.kind
          /\ Resolves(world, other)
          /\ FieldOf(world, other) = FieldOf(world, last.target) }

(* C30.  read_serialized is location-independent: for equal field values   *)
(* of the same type, the text returned for a component target and the text *)
(* returned for a resource target are identical.                           *)
(* The code returns compact RON for a component and pretty RON for a       *)
(* resource.                                                               *)
C30_ReadSerializedSameTextAnywhere ==
    (last.op = "read_value_serialized" /\ IsOk(last.result))
        => \A other \in SameValueElsewhere :
               read_value_serialized(other, world) = last.result

----------------------------------------------------------------------------
(* Frame of a set and of a toggle (Spec).                                  *)

\* The component or resource the target addresses, with the addressed
\* sub-value blanked out: what is left are the other fields of the value.
AroundField(w, target) ==
    WriteAtPath(RootOf(w, target), target.field_path, Absent)

\* The component (entity, type_id) is the one the target addresses.
AddressesComponent(target, entity, type_id) ==
    target.kind = "Component" /\ target.entity = entity /\ target.type_id = type_id

AddressesResource(target, type_id) ==
    target.kind = "Resource" /\ target.type_id = type_id

(* C26.  A set or an enum toggle changes only the addressed sub-value:     *)
(* every other field of the same value, every other type attached to the   *)
(* same entity, every other entity and every resource hold the same values *)
(* after the call as before it, whether the call returns Changed,          *)
(* NoChanges or an error.                                                  *)
C26_OnlyAddressedValueChanges ==
    (IsSet \/ IsToggle) =>
        /\ world.alive = before.alive
        /\ world.registry = before.registry
        /\ \A entity \in Entities, type_id \in ComponentTypes :
               ~AddressesComponent(last.target, entity, type_id)
                   => world.components[entity][type_id]
                          = before.components[entity][type_id]
        /\ \A type_id \in ResourceTypes :
               ~AddressesResource(last.target, type_id)
                   => world.resources[type_id] = before.resources[type_id]
        /\ IF Resolves(before, last.target)
           THEN /\ Resolves(world, last.target)
                /\ AroundField(world, last.target) = AroundField(before, last.target)
           ELSE RootOf(world, last.target) = RootOf(before, last.target)

\* value1 of the component of E1 is toggled from B(..) to A while value2,
\* the ComponentC of E1 and the ComponentA of E3 are there to be kept.
C26_Witness ==
    /\ IsToggle
    /\ last.target = new_component("E1", "ComponentA", <<"value1">>)
    /\ last.result = Ok(Changed)
    /\ FieldOf(before, last.target) = EnumVal("EnumA", "B", <<U32(MaxU32)>>)
    /\ FieldOf(world, last.target) = EnumVal("EnumA", "A", <<>>)
    /\ world.components["E1"]["ComponentC"] # Absent
    /\ world.components["E3"]["ComponentA"] # Absent
    /\ world.components["E3"]["ComponentA"] # world.components["E1"]["ComponentA"]

----------------------------------------------------------------------------
(* ReflectTarget::toggle_reflect_enum (SpecCycle).                         *)

IsTargetToggle == last.op = "target_toggle"

\* The toggle found the field at the end of the variant list in the
\* direction of the run: the last variant going Forward, the first going
\* Backward.
ToggledAtEnd ==
    IF last.direction = Forward
    THEN variant_index(ToggledFrom) = Len(EnumInfo[ToggledFrom.ty]) - 1
    ELSE variant_index(ToggledFrom) = 0

(* C28.  ReflectTarget::toggle_reflect_enum never wraps: at the last       *)
(* variant a Forward toggle, and at the first variant a Backward toggle,   *)
(* return NoChanges and leave the value unchanged; a toggle that reports   *)
(* Changed moves one variant in the direction of the run; so a run of      *)
(* toggles in one direction has at most N-1 Changed results.               *)
C28_TargetToggleNeverWraps ==
    IsTargetToggle =>
        /\ ToggledAtEnd =>
               /\ last.result = Ok(NoChanges)
               /\ SameValues(world, before)
        /\ last.result = Ok(Changed) =>
               variant_index(FieldOf(world, last.target))
                   = IF last.direction = Forward
                     THEN variant_index(ToggledFrom) + 1
                     ELSE variant_index(ToggledFrom) - 1
        /\ last.changes <= RunLength - 1

\* The three-variant enum after N-1 = 2 Changed results: the third toggle
\* through the target finds the last variant and stays.
C28_Witness ==
    /\ IsTargetToggle
    /\ last.direction = Forward
    /\ RunLength = 3 /\ last.steps = 3 /\ last.changes = 2
    /\ ToggledAtEnd
    /\ last.result = Ok(NoChanges)

----------------------------------------------------------------------------
(* Properties of the trait iterations (SpecTrait).                         *)

IsIterate ==
    /\ last.op \in {"reflect_trait_iter", "reflect_trait_iter_mut"}
    /\ last.entity \in before.alive

\* The callback of the iteration answers true on the types in last.yields:
\* one invocation per type of `types`, in order, up to and including the
\* first type on which it answers false.
CallsUntilFalse(types) ==
    LET stops == {i \in DOMAIN types : types[i] \notin last.yields}
    IN  IF stops = {} THEN types
        ELSE SubSeq(types, 1, CHOOSE i \in stops : \A j \in stops : i <= j)

IterateCallback == [fn |-> "iterate", continues |-> last.yields]

CopyTypes == {"ComponentA", "ComponentL", "ComponentN", "NonReflectComponent"}
CopyRegistry == PrimitiveTypes \cup {"EnumA", "ComponentA", "ComponentL", "ComponentN"}

\* Vec<u32> as a reflected List.
ListVal(items) == [ty |-> "List", items |-> items]
ComponentL(items) == StructVal("ComponentL", [items |-> ListVal(items)])
ComponentN(value) == StructVal("ComponentN", [value |-> value])
NonReflectComponent == [ty |-> "NonReflectComponent"]

\* Reflect::clone_value: a struct becomes a DynamicStruct of its cloned
\* fields, an enum a DynamicEnum, a list a DynamicList; a value type is
\* cloned as itself.
RECURSIVE clone_value(_)
clone_value(value) ==
    IF IsValue(value) THEN value
    ELSE IF IsEnum(value)
    THEN DynamicEnum(value.variant, variant_type(value), value.fields)
    ELSE IF value.ty = "List"
    THEN [ty |-> "DynamicList",
          items |-> [i \in DOMAIN value.items |-> clone_value(value.items[i])]]
    ELSE [ty |-> "DynamicStruct", represents |-> value.ty,
          fields |-> [f \in DOMAIN value.fields |-> clone_value(value.fields[f])]]

\* Reflect::apply as line 261 calls it on the target's component: a struct
\* takes the value field by field, an enum takes the variant and its fields,
\* a value type is overwritten, and a list takes the value element by
\* element: the elements of the value beyond the list's length are pushed,
\* the elements of the list beyond the value's length stay.
RECURSIVE apply(_, _)
apply(self, value) ==
    IF IsValue(self) THEN value
    ELSE IF IsEnum(self) THEN enum_apply(self, value)
    ELSE IF self.ty = "List"
    THEN LET longest == IF Len(self.items) > Len(value.items)
                        THEN Len(self.items) ELSE Len(value.items)
         IN  ListVal([i \in 1..longest |->
                         IF i > Len(value.items) THEN self.items[i]
                         ELSE IF i > Len(self.items) THEN value.items[i]
                         ELSE apply(self.items[i], value.items[i])])
    ELSE StructVal(self.ty,
                   [f \in DOMAIN self.fields |-> apply(self.fields[f], value.fields[f])])

\* Lines 216-231: the types of the source's archetype, in the archetype's
\* order, that the target holds too, that are registered, and that the
\* filter accepts.  The archetype lists the entity's components in the
\* order of the store's component ids.
component_type_ids_unfiltered(w, target_entity, source_entity, type_id_filter) ==
    LET Keeps(type_id) == /\ w.components[source_entity][type_id] # Absent
                          /\ w.components[target_entity][type_id] # Absent
                          /\ type_id \in w.registry
    IN  SelectSeq(w.order, Keeps)

component_type_ids(w, target_entity, source_entity, type_id_filter) ==
    LET Keeps(type_id) == /\ w.components[source_entity][type_id] # Absent
                          /\ w.components[target_entity][type_id] # Absent
                          /\ type_id \in w.registry
                          /\ type_id \in type_id_filter
    IN  SelectSeq(w.order, Keeps)

\* Lines 234-265: the loop over the collected types.  A `?` leaves the
\* function at once with what the earlier iterations wrote still written.
RECURSIVE CopyLoop(_, _, _, _)
CopyLoop(w, target_entity, source_entity, type_ids) ==
    IF type_ids = <<>>
    THEN Ret(w, Ok("()"))
    ELSE LET type_id == Head(type_ids)
             loc == ComponentLoc(target_entity, type_id)
         IN  IF type_id \notin w.registry
             THEN Ret(w, Err("TypeRegistrationNotFound"))
             ELSE IF type_id \notin ReflectComponentData
             THEN Ret(w, Err("TypeRegistrationInvalidCast"))
             ELSE IF source_entity \notin w.alive
             THEN Ret(w, Err("EntityNotFound"))
             ELSE IF w.components[source_entity][type_id] = Absent
             THEN Ret(w, Err("EntityDoesNotHaveComponent"))
             ELSE IF target_entity \notin w.alive
             THEN Ret(w, Err("EntityNotFound"))
             ELSE LET new_value == clone_value(w.components[source_entity][type_id])
                      applied ==
                          IF w.components[target_entity][type_id] = Absent
                          THEN w
                          ELSE [set_changed(w, loc) EXCEPT
                                   !.components[target_entity][type_id] =
                                       apply(@, new_value)]
                  IN  CopyLoop(applied, target_entity, source_entity, Tail(type_ids))

\* Lines 198-268.
reflect_copy_shared_component_props(w, target_entity, source_entity, type_id_filter) ==
    IF source_entity \notin w.alive
    THEN Ret(w, Err("EntityNotFound"))
    ELSE IF target_entity \notin w.alive
    THEN Ret(w, Err("EntityNotFound"))
    ELSE CopyLoop(w, target_entity, source_entity,
                  component_type_ids(w, target_entity, source_entity, type_id_filter))

(***************************************************************************)
(* The bulk copy as a state machine: the World starts with any choice of   *)
(* components on the two spawned entities and any of the orders the store  *)
(* can have given the component ids, and copies follow one another.        *)
(***************************************************************************)
\* The orders of the component ids: ComponentN at each place among the others.
CopyOrders ==
    { <<"ComponentN", "ComponentA", "ComponentL", "NonReflectComponent">>,
      <<"ComponentA", "ComponentN", "ComponentL", "NonReflectComponent">>,
      <<"NonReflectComponent", "ComponentL", "ComponentA", "ComponentN">> }

\* The type_id_filter closures: accept everything, everything but one type
\* (as the test's `*type_id != TypeId::of::<ComponentC>()`), nothing.
CopyFilters ==
    { CopyTypes, CopyTypes \ {"ComponentA"}, CopyTypes \ {"ComponentN"}, {} }

\* The entities the copies are between: the two spawned ones either way, one
\* entity onto itself, and the despawned one as target or as source.
CopyPairs ==
    { <<"E1", "E3">>, <<"E3", "E1">>, <<"E1", "E1">>, <<"E2", "E1">>, <<"E1", "E2">> }

\* What the spawned entities hold at the start when they hold a type.
CopyValue(entity, type_id) ==
    IF type_id = "ComponentA"
    THEN IF entity = "E1"
         THEN ComponentA(EnumVal("EnumA", "B", <<U32(1)>>), EnumVal("EnumA", "A", <<>>))
         ELSE ComponentA(EnumVal("EnumA", "A", <<>>), EnumVal("EnumA", "B", <<U32(0)>>))
    ELSE IF type_id = "ComponentL"
    THEN IF entity = "E1" THEN ComponentL(<<U32(0), U32(0)>>) ELSE ComponentL(<<U32(1)>>)
    ELSE IF type_id = "ComponentN"
    THEN ComponentN(U32(IF entity = "E1" THEN 1 ELSE 0))
    ELSE NonReflectComponent

CopyWorld(order, held) ==
    [ registry |-> CopyRegistry,
      alive |-> {"E1", "E3"},
      order |-> order,
      components |->
          [e \in Entities |->
              [t \in CopyTypes |-> IF t \in held[e] THEN CopyValue(e, t) ELSE Absent]],
      changed |-> {} ]

CopyInit ==
    /\ \E order \in CopyOrders, held1 \in SUBSET CopyTypes, held3 \in SUBSET CopyTypes :
           world = CopyWorld(order, [e \in Entities |->
                                        IF e = "E1" THEN held1
                                        ELSE IF e = "E3" THEN held3 ELSE {}])
    /\ before = world
    /\ last = [op |-> "copy_start", target_entity |-> "E1", source_entity |-> "E1",
               type_id_filter |-> {}, result |-> Ok("()")]

CopySharedProps(target_entity, source_entity, type_id_filter) ==
    LET r == reflect_copy_shared_component_props(world, target_entity, source_entity,
                                                 type_id_filter)
    IN  /\ world' = r.world
        /\ before' = world
        /\ last' = [op |-> "reflect_copy_shared_component_props",
                    target_entity |-> target_entity, source_entity |-> source_entity,
                    type_id_filter |-> type_id_filter, result |-> r.result]

CopyNext ==
    \E pair \in CopyPairs, type_id_filter \in CopyFilters :
        CopySharedProps(pair[1], pair[2], type_id_filter)

SpecCopy == CopyInit /\ [][CopyNext]_vars

(***************************************************************************)
(* Claims about the bulk copy (SpecCopy).                                  *)
(***************************************************************************)
IsCopy == last.op = "reflect_copy_shared_component_props"
TargetBefore(type_id) == before.components[last.target_entity][type_id]
SourceBefore(type_id) == before.components[last.source_entity][type_id]
TargetAfter(type_id) == world.components[last.target_entity][type_id]
SourceAfter(type_id) == world.components[last.source_entity][type_id]
\* The type is attached to both records, registered, and accepted by the filter.
CopyCandidate(type_id) ==
    /\ TargetBefore(type_id) # Absent
    /\ SourceBefore(type_id) # Absent
    /\ type_id \in before.registry
    /\ type_id \in last.type_id_filter

(***************************************************************************)
(* C22 as stated: after a successful bulk copy, for every type attached    *)
(* to both records, registered and accepted by the filter, the target's    *)
(* value equals the source's value, and every value of the source is as    *)
(* it was before the call.                                                 *)
(***************************************************************************)
C22_TargetEqualsSource ==
    (IsCopy /\ IsOk(last.result)) =>
        /\ \A type_id \in CopyTypes :
               CopyCandidate(type_id) => TargetAfter(type_id) = SourceBefore(type_id)
        /\ \A type_id \in CopyTypes : SourceAfter(type_id) = SourceBefore(type_id)

(***************************************************************************)
(* C23: a bulk copy leaves untouched every value of the target whose type  *)
(* is attached to only one of the two records, is rejected by the filter,  *)
(* or is not registered; it never adds a type to the target nor removes    *)
(* one; and such types do not make the call fail: a call that fails finds  *)
(* a record missing or fails on a type that is attached to both records,   *)
(* registered and accepted.                                                *)
(***************************************************************************)
C23_OthersLeftUntouched ==
    IsCopy =>
        /\ \A type_id \in CopyTypes :
               ~CopyCandidate(type_id) => TargetAfter(type_id) = TargetBefore(type_id)
        /\ \A type_id \in CopyTypes :
               (TargetAfter(type_id) = Absent) <=> (TargetBefore(type_id) = Absent)
        /\ IsErr(last.result) =>
               \/ last.target_entity \notin before.alive
               \/ last.source_entity \notin before.alive
               \/ \E type_id \in CopyTypes :
                      CopyCandidate(type_id) /\ type_id \notin ReflectComponentData

\* A successful copy that wrote a value while the target held a type the
\* source lacks, both held an unregistered type, and the filter rejected a
\* type both held.
C23_Witness ==
    /\ IsCopy
    /\ IsOk(last.result)
    /\ last.target_entity # last.source_entity
    /\ \E type_id \in CopyTypes :
           CopyCandidate(type_id) /\ TargetAfter(type_id) # TargetBefore(type_id)
    /\ TargetBefore("ComponentN") # Absent
    /\ SourceBefore("ComponentN") = Absent
    /\ TargetBefore("NonReflectComponent") # Absent
    /\ SourceBefore("NonReflectComponent") # Absent
    /\ TargetBefore("ComponentA") # Absent
    /\ SourceBefore("ComponentA") # Absent
    /\ TargetBefore("ComponentA") # SourceBefore("ComponentA")
    /\ "ComponentA" \notin last.type_id_filter

(***************************************************************************)
(* C27 as stated: a bulk copy that returns an error has modified no value  *)
(* of the target.                                                          *)
(***************************************************************************)
C27_FailedCopyWritesNothing ==
    (IsCopy /\ IsErr(last.result)) =>
        \A type_id \in CopyTypes : TargetAfter(type_id) = TargetBefore(type_id)

(***************************************************************************)
(* examples/toggle_enum.rs, examples/simple_commands.rs: deferred          *)
(* mutations.  A system holds no exclusive access to the World, so it      *)
(* captures a ReflectTarget and the operation in a `move` closure and adds *)
(* it to the command queue; the schedule applies the queue later with      *)
(* `&mut World`.  `world.store` is the World, `world.queue` the commands    *)
(* not yet applied, `world.runs` how often each closure has been called.   *)
(***************************************************************************)
MaxCommands == 3
CommandIds == 1..MaxCommands

\* The targets the closures capture: the resource field of toggle_enum.rs
\* and a component field of a spawned entity as in simple_commands.rs.
CommandTargets ==
    { new_resource("ResourceT", <<"value">>),
      new_component("E1", "ComponentA", <<"value1">>) }

\* commands.add(move |world: &mut World| { ... }): the closure as data.
Command(id, target, direction) == [id |-> id, target |-> target, direction |-> direction]

\* The body of the closure of toggle_enum.rs: one call of
\* target.toggle_reflect_enum(world, direction), whose result is logged.
RunCommand(w, command) ==
    LET r == toggle_reflect_enum(command.target, w.store, command.direction)
    IN  [w EXCEPT !.store = r.world,
                  !.runs[command.id] = @ + 1,
                  !.log = Append(@, r.result)]

\* The schedule applying the command queue: every command is taken out of
\* the queue and called with the World, in the order it was added.
RECURSIVE CommandQueueApply(_)
CommandQueueApply_retaining(w) ==
    IF w.queue = <<>>
    THEN w
    ELSE [CommandQueueApply(RunCommand([w EXCEPT !.queue = Tail(@)], Head(w.queue)))
             EXCEPT !.queue = w.queue]

CommandQueueApply(w) ==
    IF w.queue = <<>>
    THEN w
    ELSE CommandQueueApply(RunCommand([w EXCEPT !.queue = Tail(@)], Head(w.queue)))

CommandInit ==
    /\ \E a \in EnumAValues, t \in EnumTValues,
          registry \in {PrimitiveTypes \cup AppTypes,
                        PrimitiveTypes \cup AppTypes \cup {"Opaque"}} :
           world = [ store |-> CycleWorld(a, t, registry),
                     queue |-> <<>>,
                     issued |-> 0,
                     runs |-> [id \in CommandIds |-> 0],
                     log |-> <<>> ]
    /\ before = world
    /\ last = [op |-> "command_start"]

\* handle_input on a key press (setup of simple_commands.rs at start-up):
\* the target and the direction are captured and the closure is queued.
HandleInput(target, direction) ==
    /\ world.issued < MaxCommands
    /\ world' = [world EXCEPT
                    !.issued = @ + 1,
                    !.queue = Append(@, Command(world.issued + 1, target, direction))]
    /\ before' = world
    /\ last' = [op |-> "handle_input"]

\* The schedule reaches its apply point with commands in the queue.
ApplyDeferred ==
    /\ world.queue # <<>>
    /\ world' = CommandQueueApply(world)
    /\ before' = world
    /\ last' = [op |-> "apply_deferred"]

CommandNext ==
    \/ \E target \in CommandTargets, direction \in EnumDirection :
           HandleInput(target, direction)
    \/ ApplyDeferred

SpecCommands == CommandInit /\ [][CommandNext]_vars

(***************************************************************************)
(* Claims about deferred mutations (SpecCommands).                         *)
(***************************************************************************)
IsQueued(id) == \E i \in DOMAIN world.queue : world.queue[i].id = id

\* The World after each of the commands has made its whole call, in order.
RECURSIVE CompletedRuns(_, _)
CompletedRuns(store, commands) ==
    IF commands = <<>>
    THEN store
    ELSE CompletedRuns(
             toggle_reflect_enum(Head(commands).target, store, Head(commands).direction).world,
             Tail(commands))

====
